---- MODULE Spec2Model ----
(***************************************************************************)
(* A model of the randomized-generator batching pipeline of x_xy:          *)
(*   utils/batchsize.py          distribute_batchsize, merge_batchsize     *)
(*   algorithms/generator/batch.py   batch_generators_lazy and the         *)
(*                                   list-backed cache                     *)
(*   algorithms/rcmg/__init__.py     build_generator, batch_generator,     *)
(*                                   offline_generator                     *)
(* Random keys are symbolic: PRNGKey(seed) is <<seed>> and the i-th of the *)
(* n keys split from k is k \o <<n, i>>, so that a key records how it was  *)
(* derived and two different derivations give two different keys.          *)
(***************************************************************************)
EXTENDS Integers, Sequences, FiniteSets, TLC

\* ---------------------------------------------------------------- bounds
MaxDevices == 2      \* jax.local_device_count() ranges over 1..MaxDevices
MaxGens == 2         \* longest list of generators handed to a batching call
MaxCount == 3        \* a small per-generator count
BigBatch == 10       \* a large count, so that batches beyond the lane threshold occur
MaxSeed == 2         \* caller keys are PRNGKey(1..MaxSeed)
MaxDepth == 2        \* how often the caller re-batches what it holds
MaxBatch == 20       \* largest batch followed; distribute_batchsize is called on 0..MaxBatch
MaxPool == 4         \* largest pool of an offline cache
MaxRequests == 6     \* requests to a cache that are followed

\* ------------------------------------------------------------- constants
vmap_size_min == 8

\* ------------------------------------------------------------------ keys
PRNGKey(seed) == <<seed>>

Split(key, n) == [i \in 1..n |-> key \o <<n, i - 1>>]

CallerKeys == {PRNGKey(s) : s \in 1..MaxSeed}

ProbeKey == PRNGKey(0)

RECURSIVE KeySum(_)
KeySum(key) == IF key = <<>> THEN 0 ELSE Head(key) + 2 * KeySum(Tail(key))

\* ------------------------------------------------------- generic helpers
RECURSIVE Concat(_)
Concat(seqs) == IF seqs = <<>> THEN <<>> ELSE Head(seqs) \o Concat(Tail(seqs))

RECURSIVE SumSeq(_)
SumSeq(s) == IF s = <<>> THEN 0 ELSE Head(s) + SumSeq(Tail(s))

Repeat(x, n) == [k \in 1..n |-> x]

CountOf(s, x) == Cardinality({k \in DOMAIN s : s[k] = x})

\* ------------------------------------------------- utils/batchsize.py
\* The outcome of distribute_batchsize: ok is FALSE when the assertion fails.
DistributeMutNoAssert(batchsize, devices) ==
    IF batchsize <= vmap_size_min
    THEN [ok |-> TRUE, pmap |-> 1, vmap |-> batchsize]
    ELSE LET vmap_size == batchsize \div devices
         IN  [ok |-> TRUE, pmap |-> batchsize \div vmap_size, vmap |-> vmap_size]

distribute_batchsize(batchsize, devices) ==
    IF batchsize <= vmap_size_min
    THEN [ok |-> TRUE, pmap |-> 1, vmap |-> batchsize]
    ELSE IF batchsize % devices # 0
         THEN [ok |-> FALSE, pmap |-> 0, vmap |-> 0]
         ELSE LET vmap_size == batchsize \div devices
              IN  [ok |-> TRUE, pmap |-> batchsize \div vmap_size, vmap |-> vmap_size]

\* arr.reshape((pmap, vmap) + ...) of a flat array: row-major.
ReshapeMutColumnMajor(flat, pmap, vmap) ==
    [p \in 1..pmap |-> [v \in 1..vmap |-> flat[(v - 1) * pmap + p]]]

Reshape(flat, pmap, vmap) ==
    [p \in 1..pmap |-> [v \in 1..vmap |-> flat[(p - 1) * vmap + v]]]

\* arr.reshape((pmap_size * vmap_size,) + arr.shape[2:]): row-major.
MergeMutColumnMajor(grid, pmap_size, vmap_size) ==
    [f \in 1..(pmap_size * vmap_size) |->
        grid[((f - 1) % pmap_size) + 1][((f - 1) \div pmap_size) + 1]]

merge_batchsize(grid, pmap_size, vmap_size) ==
    [f \in 1..(pmap_size * vmap_size) |->
        grid[((f - 1) \div vmap_size) + 1][((f - 1) % vmap_size) + 1]]

\* ------------------------------------------ joint-type registry (jcalc)
\* Width of the coordinate block a joint type's draw function fills.
JointWidth(link_type) ==
    CASE link_type = "free" -> 7
      [] link_type = "spherical" -> 4
      [] OTHER -> 1

\* Number of array dimensions of what the type's rcmg_draw_fn returns:
\* single-axis joints draw a 1-d time series.
DrawNdim(link_type) == IF JointWidth(link_type) = 1 THEN 1 ELSE 2

\* Whether the type is registered with a draw function: "custom" stands
\* for a joint type registered with rcmg_draw_fn = None.
HasDrawFn(link_type) == link_type # "custom"

\* Total width of the coordinates of links of the given types.
RECURSIVE TotalWidth(_)
TotalWidth(link_types) ==
    IF link_types = <<>> THEN 0
    ELSE JointWidth(Head(link_types)) + TotalWidth(Tail(link_types))

\* ------------------------------------------------------------- systems
ThreeSeg == [link_parents |-> <<-1, 0, 0>>,
             link_types |-> <<"free", "rx", "rx">>,
             mods |-> <<>>]

Chain == [link_parents |-> <<-1, 0>>,
          link_types |-> <<"spherical", "rx">>,
          mods |-> <<>>]

\* Two roots, and a link whose parent is not the link before it.
Forest == [link_parents |-> <<-1, -1, 0>>,
           link_types |-> <<"free", "spherical", "rx">>,
           mods |-> <<>>]

\* A system with a link of a joint type that has no draw function.
NoDraw == [link_parents |-> <<-1, 0, 1>>,
           link_types |-> <<"free", "custom", "rx">>,
           mods |-> <<>>]

\* The closures build_generator is called with: the system, the setup
\* function ("id" is the default lambda, "rand" rewrites the static offsets
\* from its key, "retype" also replaces the free joints by spherical ones)
\* and the finalize function, given by what it returns as X: "q_x" is the
\* default (X = q, time x width), "q0" returns one column of q (time
\* only), "pos" returns the per-link positions (time x link x 3).
BaseIds == 1..7

Closure(g) ==
    CASE g = 1 -> [sys0 |-> ThreeSeg, setup |-> "id", finalize |-> "q_x"]
      [] g = 2 -> [sys0 |-> ThreeSeg, setup |-> "rand", finalize |-> "q_x"]
      [] g = 3 -> [sys0 |-> Chain, setup |-> "id", finalize |-> "q0"]
      [] g = 4 -> [sys0 |-> Chain, setup |-> "rand", finalize |-> "pos"]
      [] g = 5 -> [sys0 |-> NoDraw, setup |-> "id", finalize |-> "q_x"]
      [] g = 6 -> [sys0 |-> Forest, setup |-> "rand", finalize |-> "q_x"]
      [] OTHER -> [sys0 |-> ThreeSeg, setup |-> "retype", finalize |-> "q_x"]

\* The closures the batching calls are supplied with, one at a time.
SupplyIds == 1..5

\* Generators stacked in one batch must return the same shapes (lax.switch):
\* lists are drawn from the closures over the same system and finalize.
ListIds == {1, 2}

\* Array dimensions of the X a finalize function returns for one sample.
FinalizeNdim(finalize) ==
    CASE finalize = "q_x" -> 2
      [] finalize = "q0" -> 1
      [] OTHER -> 3

Retyped(link_types) ==
    [i \in DOMAIN link_types |->
        IF link_types[i] = "free" THEN "spherical" ELSE link_types[i]]

setup_fn(setup, key, s) ==
    CASE setup = "id" -> s
      [] setup = "rand" -> [s EXCEPT !.mods = Append(@, key)]
      [] OTHER -> [s EXCEPT !.mods = Append(@, key),
                            !.link_types = Retyped(@)]

\* --------------------------------------------- rcmg/__init__.py build_generator
None == <<>>

\* draw_q: the visitor of the scan. arg is the key it received, split the
\* key it split, ret the key it returns; q_link is the block appended to
\* q_list: what the draw function returned from (config, key_t, key_value),
\* as a 2-d array of width columns (a 1-d draw is promoted to one column).
\* The key is split before the draw function is looked up; a type without
\* one raises an Exception whose message names the type.
DrawQMutRestart(key, link_type, key_start, config) ==
    LET ks == Split(key_start, 3)
        ndim == DrawNdim(link_type)
    IN  [ok |-> HasDrawFn(link_type), arg |-> key, split |-> key_start,
         ret |-> ks[1], link_type |-> link_type,
         q_link |-> [type |-> link_type, config |-> config, key_t |-> ks[2],
                     key_value |-> ks[3],
                     ndim |-> IF ndim = 2 THEN ndim ELSE ndim + 1,
                     width |-> JointWidth(link_type)]]

DrawQMutNoRaise(key, link_type, key_start, config) ==
    LET k == IF key = None THEN key_start ELSE key
        ks == Split(k, 3)
        ndim == DrawNdim(link_type)
    IN  [ok |-> TRUE, arg |-> key, split |-> k,
         ret |-> ks[1], link_type |-> link_type,
         q_link |-> [type |-> link_type, config |-> config, key_t |-> ks[2],
                     key_value |-> ks[3],
                     ndim |-> IF ndim = 2 THEN ndim ELSE ndim + 1,
                     width |-> JointWidth(link_type)]]

DrawQMutNoPromote(key, link_type, key_start, config) ==
    LET k == IF key = None THEN key_start ELSE key
        ks == Split(k, 3)
    IN  [ok |-> HasDrawFn(link_type), arg |-> key, split |-> k,
         ret |-> ks[1], link_type |-> link_type,
         q_link |-> [type |-> link_type, config |-> config, key_t |-> ks[2],
                     key_value |-> ks[3], ndim |-> DrawNdim(link_type),
                     width |-> JointWidth(link_type)]]

draw_q(key, link_type, key_start, config) ==
    LET k == IF key = None THEN key_start ELSE key
        ks == Split(k, 3)
        ndim == DrawNdim(link_type)
    IN  [ok |-> HasDrawFn(link_type), arg |-> key, split |-> k,
         ret |-> ks[1], link_type |-> link_type,
         q_link |-> [type |-> link_type, config |-> config, key_t |-> ks[2],
                     key_value |-> ks[3],
                     ndim |-> IF ndim = 2 THEN ndim ELSE ndim + 1,
                     width |-> JointWidth(link_type)]]

\* scan.tree(sys_mod, draw_q, "l", link_types) scans the visitor along the
\* links of sys_mod in index order whilst carrying along its result: the
\* visitor of the first link receives None, the visitor of every other
\* link what the visitor of the link before it returned, whatever the
\* parents are (the structural visitors of sim2real keep their own table
\* of the parents' results). link_types[i] is the value zipped to link i.
\* ys[i] is the record draw_q returned for link i; the scan ends at the
\* first visitor that raises.
RECURSIVE ScanTreeDraw(_, _, _, _, _)
ScanTreeDraw(link_parents, link_types, key_start, config, ys) ==
    LET i == Len(ys) + 1
    IN  IF i > Len(link_parents) THEN ys
        ELSE IF ys # <<>> /\ ~ys[Len(ys)].ok THEN ys
        ELSE LET y == IF ys = <<>> THEN None ELSE ys[Len(ys)].ret
             IN  ScanTreeDraw(link_parents, link_types, key_start, config,
                    Append(ys, draw_q(y, link_types[i], key_start, config)))

\* forward_kinematics_transforms: the global transform of a link is its
\* parent's composed with its own; a transform is written as the chain of
\* links whose local transforms it composes.
RECURSIVE ForwardKinematics(_, _)
ForwardKinematics(link_parents, xs) ==
    LET i == Len(xs) + 1
    IN  IF i > Len(link_parents) THEN xs
        ELSE LET p == link_parents[i]
             IN  ForwardKinematics(link_parents,
                    Append(xs, (IF p = -1 THEN <<>> ELSE xs[p + 1]) \o <<i - 1>>))

\* What the closure variable sys holds after a call of generator: the code
\* binds the modified system to sys_mod and never assigns sys.
SysAfterCallMutStore(s, sys_mod) == sys_mod

SysAfterCall(s, sys_mod) == s

\* The closure variables after the invocations of one operation.
RECURSIVE CellsAfter(_, _)
CellsAfter(cells, invocations) ==
    IF invocations = <<>> THEN cells
    ELSE LET h == Head(invocations)
         IN  CellsAfter([cells EXCEPT ![h.g] = SysAfterCall(@, h.sys_mod)],
                        Tail(invocations))

Invocations(invocations) ==
    [k \in DOMAIN invocations |-> <<invocations[k].g, invocations[k].key>>]

\* jnp.concatenate(q_list, axis=1): the blocks side by side, in the order
\* of the list; its width is the sum of theirs.
RECURSIVE Concatenate(_)
Concatenate(q_list) ==
    IF q_list = <<>> THEN [width |-> 0, blocks |-> <<>>]
    ELSE LET rest == Concatenate(Tail(q_list))
         IN  [width |-> Head(q_list).width + rest.width,
              blocks |-> <<Head(q_list)>> \o rest.blocks]

\* finalize_fn(key, q, x, sys_mod) of closure g: what it returns is a
\* function of its arguments.
finalize_fn(g, key, q, x, sys_mod) ==
    [gen |-> g, key |-> key, q |-> q, x |-> x, mods |-> sys_mod.mods]

\* The message of the Exception draw_q raises.
NoDrawFnMessage(link_type) ==
    <<"The joint type ", link_type, " has no draw fn specified.">>

\* One call of build_generator's generator on closure g whose closure
\* variable sys holds s, with all it did: ys are the visits of the scan,
\* uses the keys in the order they were used (split, handed to a draw or
\* to setup_fn or finalize_fn), raised the message of the exception that
\* ended the call (None: it returned sample).
TraceOf(g, key, key_start, consume, sys_mod, ys) ==
    LET ok == \A i \in DOMAIN ys : ys[i].ok
        q_list == [i \in {j \in DOMAIN ys : ys[j].ok} |-> ys[i].q_link]
        last == ys[Len(ys)].ret
        q == Concatenate(q_list)
        x == ForwardKinematics(sys_mod.link_parents, <<>>)
        drawUses == Concat([i \in DOMAIN ys |->
                        <<ys[i].split>> \o
                        (IF ys[i].ok
                         THEN <<ys[i].q_link.key_t, ys[i].q_link.key_value>>
                         ELSE <<>>)])
    IN  [ok |-> ok,
         raised |-> IF ok THEN None
                    ELSE NoDrawFnMessage(ys[Len(ys)].link_type),
         key_start |-> key_start, consume |-> consume,
         sys_mod |-> sys_mod, ys |-> ys, q_list |-> q_list,
         q |-> IF ok THEN q ELSE None,
         finalized |-> ok,
         sample |-> IF ok THEN finalize_fn(g, last, q, x, sys_mod) ELSE None,
         uses |-> <<key, consume>> \o drawUses \o (IF ok THEN <<last>> ELSE <<>>)]

GeneratorTrace(g, s, key) ==
    LET config == g
        ks == Split(key, 2)
        key_start == ks[1]
        consume == ks[2]
        sys_mod == setup_fn(Closure(g).setup, consume, s)
    IN  TraceOf(g, key, key_start, consume, sys_mod,
                ScanTreeDraw(sys_mod.link_parents, s.link_types, key_start,
                             config, <<>>))

\* What the caller of generator sees of a call.
Returned(t) ==
    [ok |-> t.ok, raised |-> t.raised, sample |-> t.sample,
     sys_mod |-> t.sys_mod]

Generator(g, s, key) == Returned(GeneratorTrace(g, s, key))

\* ------------------------------------------------ generators as values
\* A generator the caller can hold: a closure of build_generator ("base")
\* or the closure batch_generators_lazy / rcmg.batch_generator returns
\* ("lazy"), with the variables that closure captures.
BaseGen(g) ==
    [kind |-> "base", id |-> g, generators |-> <<>>, batchsizes |-> <<>>,
     stochastic |-> FALSE, bs_total |-> 0, pmap |-> 0, vmap |-> 0,
     batch_arr_nonstoch |-> <<>>]

LazyGen(generators, batchsizes, stochastic, bs_total, pmap, vmap, batch_arr_nonstoch) ==
    [kind |-> "lazy", id |-> 0, generators |-> generators,
     batchsizes |-> batchsizes, stochastic |-> stochastic,
     bs_total |-> bs_total, pmap |-> pmap, vmap |-> vmap,
     batch_arr_nonstoch |-> batch_arr_nonstoch]

\* What a generator returns: lead are the leading batch axes, xdim the
\* array dimensions of X for one sample, cells the samples in row-major
\* order of the leading axes.
Ndim(val) == Len(val.lead) + val.xdim

\* The shape of what one call of gen returns (what tracing the call finds).
RECURSIVE ShapeOf(_)
ShapeOf(gen) ==
    IF gen.kind = "base"
    THEN [lead |-> <<>>, xdim |-> FinalizeNdim(Closure(gen.id).finalize)]
    ELSE LET elem == ShapeOf(gen.generators[1])
         IN  [lead |-> <<gen.bs_total>> \o elem.lead, xdim |-> elem.xdim]

\* Stacking the values of the slots of a batch along a new leading axis;
\* elem is the shape of one slot.
Stack(vals, elem) ==
    [lead |-> <<Len(vals)>> \o elem.lead,
     xdim |-> elem.xdim,
     cells |-> Concat([f \in DOMAIN vals |-> vals[f].cells])]

\* jax.random.choice(consume, arange(n), shape=(pmap, vmap)): every cell a
\* value of 0..n-1 that is a function of the key and the cell.
Choice(consume, n, pmap, vmap) ==
    [p \in 1..pmap |-> [v \in 1..vmap |->
        (KeySum(consume) + 3 * ((p - 1) * vmap + v)) % n]]

\* ------------------------------------- batch.py batch_generators_lazy.generator
\* ApplyGen(gen, key, cells): one call gen(key), where cells[g] is what the
\* closure variable sys of base closure g holds. Returns the value, the
\* invocations of base closures made (closure, key, the sys_mod it bound),
\* the locals batch_arr and pmap_vmap_keys of the outermost batched call,
\* and the keys that call used itself, in the order of their use: split,
\* drawn from, or handed to a generator (uses).
RECURSIVE ApplyGen(_, _, _)
RECURSIVE RunCellsMutSkip(_, _, _, _, _, _)
RECURSIVE RunCells(_, _, _, _, _, _)

\* What a call that raised leaves its caller with: nothing.
NoVal == [lead |-> <<>>, xdim |-> 0, cells |-> <<>>]

\* The first message of a list of messages (None: no call raised).
RECURSIVE FirstRaised(_)
FirstRaised(msgs) ==
    IF msgs = <<>> THEN None
    ELSE IF Head(msgs) # None THEN Head(msgs)
    ELSE FirstRaised(Tail(msgs))

\* Tracing generator gen with key: jit, pmap and vmap trace the code of
\* every generator lax.switch lists, once, to the closures of
\* build_generator; the message of the first that raises (None: none).
RECURSIVE Traced(_, _, _)
Traced(gen, key, cells) ==
    IF gen.kind = "base" THEN Generator(gen.id, cells[gen.id], key).raised
    ELSE FirstRaised([k \in DOMAIN gen.generators |->
                         Traced(gen.generators[k], key, cells)])

\* key, consume = jax.random.split(key) of a stochastic call: key is split
\* into the slots' keys, consume draws the assignment.
StochasticKeysMutReuse(key) == [key |-> key, consume |-> key]

StochasticKeys(key) ==
    [key |-> Split(key, 2)[1], consume |-> Split(key, 2)[2]]

\* _generator(pmap_vmap_keys, batch_arr): cell (p, v) runs
\* lax.switch(batch_arr[p][v], generators, pmap_vmap_keys[p][v]). acc.res
\* holds the results of the cells visited so far, in row-major order; an
\* exception in a cell ends the run (acc.raised is its message).
CellAcc(acc, r) ==
    [res |-> Append(acc.res, r.val), invoked |-> acc.invoked \o r.invoked,
     raised |-> r.raised]

RunCellsMutSkip(gen, keys, batch_arr, f, cells, acc) ==
    IF f > gen.pmap * gen.vmap THEN acc
    ELSE RunCellsMutSkip(gen, keys, batch_arr, f + 1, cells,
            [CellAcc(acc,
                ApplyGen(gen.generators[
                             batch_arr[((f - 1) \div gen.vmap) + 1]
                                      [((f - 1) % gen.vmap) + 1] + 1],
                         keys[((f - 1) \div gen.vmap) + 1]
                             [((f - 1) % gen.vmap) + 1], cells))
             EXCEPT !.raised = None])

RunCells(gen, keys, batch_arr, f, cells, acc) ==
    IF f > gen.pmap * gen.vmap \/ acc.raised # None THEN acc
    ELSE LET p == ((f - 1) \div gen.vmap) + 1
             v == ((f - 1) % gen.vmap) + 1
             which_gen == batch_arr[p][v]
         IN  RunCells(gen, keys, batch_arr, f + 1, cells,
                 CellAcc(acc, ApplyGen(gen.generators[which_gen + 1],
                                       keys[p][v], cells)))

\* What a call of a closure of build_generator returns to the batching
\* code, r being what the call did.
BaseOut(gen, key, r) ==
    [val |-> IF r.ok
             THEN [lead |-> <<>>,
                   xdim |-> FinalizeNdim(Closure(gen.id).finalize),
                   cells |-> <<r.sample>>]
             ELSE NoVal,
     raised |-> r.raised,
     invoked |-> << [g |-> gen.id, key |-> key, sys_mod |-> r.sys_mod] >>,
     batch_arr |-> <<>>, pmap_vmap_keys |-> <<>>, uses |-> <<>>]

\* What a batched call returns, run being what _generator did:
\* utils.merge_batchsize(data, pmap, vmap), or nothing when it raised.
LazyOut(gen, run, batch_arr, pmap_vmap_keys, uses) ==
    [val |-> IF run.raised = None
             THEN Stack(merge_batchsize(
                            [p \in 1..gen.pmap |-> [v \in 1..gen.vmap |->
                                run.res[(p - 1) * gen.vmap + v]]],
                            gen.pmap, gen.vmap),
                        ShapeOf(gen.generators[1]))
             ELSE NoVal,
     raised |-> run.raised,
     invoked |-> run.invoked,
     batch_arr |-> batch_arr, pmap_vmap_keys |-> pmap_vmap_keys,
     uses |-> uses]

ApplyGen(gen, key, cells) ==
    IF gen.kind = "base"
    THEN BaseOut(gen, key, Generator(gen.id, cells[gen.id], key))
    ELSE LET ks == StochasticKeys(key)
             key2 == IF gen.stochastic THEN ks.key ELSE key
             consume == ks.consume
             batch_arr ==
                 IF gen.stochastic
                 THEN Choice(consume, Len(gen.generators), gen.pmap, gen.vmap)
                 ELSE gen.batch_arr_nonstoch
             pmap_vmap_keys ==
                 Reshape(Split(key2, gen.bs_total), gen.pmap, gen.vmap)
         IN  \* lax.switch traces every generator of the list, assigned to
             \* a cell or not: one that raises ends the call.
             LazyOut(gen,
                 RunCells(gen, pmap_vmap_keys, batch_arr, 1, cells,
                          [res |-> <<>>, invoked |-> <<>>,
                           raised |-> Traced(gen, key2, cells)]),
                 batch_arr, pmap_vmap_keys,
                 (IF gen.stochastic THEN <<key, consume>> ELSE <<>>)
                     \o <<key2>> \o Split(key2, gen.bs_total))

\* ------------------------------------------- batch.py batch_generators_lazy
\* _build_batch_matrix: the run-length expansion of the counts.
RECURSIVE BuildFrom(_, _)
BuildFrom(batchsizes, i) ==
    IF i > Len(batchsizes) THEN <<>>
    ELSE Repeat(i - 1, batchsizes[i]) \o BuildFrom(batchsizes, i + 1)

BuildMutOffByOne(batchsizes) ==
    IF Len(batchsizes) > 1 /\ batchsizes[1] > 0 /\ batchsizes[2] > 0
    THEN BuildFrom([batchsizes EXCEPT ![1] = @ - 1, ![2] = @ + 1], 1)
    ELSE BuildFrom(batchsizes, 1)

_build_batch_matrix(batchsizes) == BuildFrom(batchsizes, 1)

\* Whether the entry point reports that it skips batching: batch.py warns,
\* rcmg/__init__.py returns without a word.
SkipWarns(entry) == entry = "lazy"

\* batch_generators_lazy (entry "lazy") and rcmg.batch_generator (entry
\* "rcmg") on generators (one generator when not isList), with batchsizes
\* given as a list; a list of one stands for an int as well. status is
\* "skip" (the generator itself is returned), "ok" (gen is the new closure)
\* or "error" (an assertion failed: err names it).
BatchGenerators(entry, isList, generators, batchsizes, stochastic, devices, cells) ==
    LET probe == ApplyGen(generators[1], ProbeKey, cells)
        ndim == Ndim(probe.val)
        invoked1 == IF isList THEN <<>> ELSE probe.invoked
        arr == _build_batch_matrix(batchsizes)
        bs_total == IF stochastic THEN batchsizes[1] ELSE Len(arr)
        d == distribute_batchsize(bs_total, devices)
        fail(e, dist) ==
            [status |-> "error", err |-> e, gen |-> generators[1],
             warned |-> FALSE, invoked |-> invoked1, dist |-> dist,
             raised |-> IF e = "Exception" THEN probe.raised ELSE None]
        nodist == <<>>
    IN  IF ~isList /\ probe.raised # None
        THEN fail("Exception", nodist)
        ELSE IF ~isList /\ ndim > 2
        THEN [status |-> "skip", err |-> "", gen |-> generators[1],
              warned |-> SkipWarns(entry), invoked |-> invoked1,
              dist |-> nodist, raised |-> None]
        ELSE IF stochastic /\ Len(batchsizes) # 1
        THEN fail("isinstance", nodist)
        ELSE IF ~stochastic /\ Len(generators) # Len(batchsizes)
        THEN fail("len", nodist)
        ELSE IF ~d.ok
        THEN fail("shape", << [batchsize |-> bs_total, ret |-> d] >>)
        ELSE [status |-> "ok", err |-> "",
              gen |-> LazyGen(generators, batchsizes, stochastic, bs_total,
                              d.pmap, d.vmap,
                              IF stochastic THEN <<>>
                              ELSE Reshape(arr, d.pmap, d.vmap)),
              warned |-> FALSE, invoked |-> invoked1,
              dist |-> << [batchsize |-> bs_total, ret |-> d] >>,
              raised |-> None]

\* ------------------------- filling a pool (batch.py 87-105, rcmg 139-161)
\* tree_map(lambda a: a[i], sample): item i of a sample along its first
\* axis. Of a batch that is its i-th sample; of what a generator returned
\* whose batching was skipped it is the slice at index i of the first axis
\* (time) of that one sample.
Item(val, i) ==
    IF val.lead = <<>> THEN [slice |-> i - 1, of |-> val.cells[1]]
    ELSE val.cells[i]

\* One pass of the loop for generator gen and size: b is what the batching
\* call returned, r what the call of the batched generator with consume
\* returned (not made when the batching call raised). acc.uses are the
\* keys the loop used itself: the key it split and the key it handed on.
PoolStep(acc, b, r, size, key, consume) ==
    IF b.status = "error"
    THEN [acc EXCEPT !.err = b.err, !.raised = b.raised,
                     !.uses = Append(@, key),
                     !.invoked = @ \o b.invoked]
    ELSE IF r.raised # None
    THEN [acc EXCEPT !.raised = r.raised, !.consumed = Append(@, consume),
                     !.uses = @ \o <<key, consume>>,
                     !.invoked = @ \o b.invoked \o r.invoked]
    ELSE [acc EXCEPT !.data = @ \o [i \in 1..size |-> Item(r.val, i)],
                     !.consumed = Append(@, consume),
                     !.uses = @ \o <<key, consume>>,
                     !.invoked = @ \o b.invoked \o r.invoked]

\* sample = batch_generators_lazy(gen, size)(consume), b being what
\* batch_generators_lazy(gen, size) returned.
PoolCall(acc, b, size, key, consume, cells) ==
    PoolStep(acc, b, ApplyGen(b.gen, consume, cells), size, key, consume)

\* The loop from generator j on, key being the running key: each pass
\* splits it into (key, consume) and hands consume to the batched
\* generator. An exception ends the loop.
RECURSIVE PoolFrom(_, _, _, _, _, _, _)
PoolFrom(entry, generators, sizes, cells, j, key, acc) ==
    IF j > Len(generators) \/ acc.err # "" \/ acc.raised # None THEN acc
    ELSE PoolFrom(entry, generators, sizes, cells, j + 1, Split(key, 2)[1],
            PoolCall(acc,
                BatchGenerators(entry, FALSE, <<generators[j]>>, <<sizes[j]>>,
                                FALSE, 1, cells),
                sizes[j], key, Split(key, 2)[2], cells))

\* What the function returns: the list data, or nothing when it raised.
PoolReturnMutPartial(acc) ==
    [returned |-> TRUE, data |-> acc.data, filled |-> acc.data,
     err |-> acc.err, raised |-> acc.raised, consumed |-> acc.consumed,
     uses |-> acc.uses, invoked |-> acc.invoked]

PoolReturn(acc) ==
    [returned |-> acc.err = "" /\ acc.raised = None,
     data |-> IF acc.err = "" /\ acc.raised = None THEN acc.data ELSE <<>>,
     filled |-> acc.data,
     err |-> acc.err, raised |-> acc.raised, consumed |-> acc.consumed,
     uses |-> acc.uses, invoked |-> acc.invoked]

\* batch_generators_eager_to_list(generators, sizes, seed) (entry "lazy")
\* and the loop of rcmg.offline_generator (entry "rcmg"), on one device.
\* data is the list returned, filled the local list when the function
\* ended, consumed the keys handed to the batched generators, invoked the
\* generators run with their keys.
batch_generators_eager_to_list(entry, generators, sizes, seed, cells) ==
    IF Len(generators) # Len(sizes)
    THEN [returned |-> FALSE, data |-> <<>>, filled |-> <<>>, err |-> "len",
          raised |-> None, consumed |-> <<>>, uses |-> <<>>,
          invoked |-> <<>>]
    ELSE PoolReturn(PoolFrom(entry, generators, sizes, cells, 1, PRNGKey(seed),
                             [data |-> <<>>, err |-> "", raised |-> None,
                              consumed |-> <<>>, uses |-> <<>>,
                              invoked |-> <<>>]))

\* ----------------- rcmg/__init__.py make_normalizer_from_generator
KEY == PRNGKey(777)

KEY_PERMUTATION == PRNGKey(888)

\* tree_utils.tree_shape(X): the size of the leading axis of a batch.
tree_shape(val) == val.lead[1]

\* math.ceil(a / b)
Ceil(a, b) == (a + b - 1) \div b

\* The loop: each pass splits the running key into (key, consume) and
\* calls the generator with consume. acc.Xs are the batches collected,
\* acc.uses the keys the function used so far, acc.invoked the closures
\* of build_generator run.
NormStep(acc, r, key, consume) ==
    [Xs |-> Append(acc.Xs, r.val), raised |-> r.raised,
     uses |-> acc.uses \o <<key, consume>>,
     invoked |-> acc.invoked \o r.invoked]

RECURSIVE NormLoop(_, _, _, _, _)
NormLoop(generator, n, cells, key, acc) ==
    IF n = 0 \/ acc.raised # None THEN acc
    ELSE NormLoop(generator, n - 1, cells, Split(key, 2)[1],
            NormStep(acc, ApplyGen(generator, Split(key, 2)[2], cells),
                     key, Split(key, 2)[2]))

\* From the probe generator(KEY) on: bs is the batch size probed, the loop
\* starts again from KEY, and the batches collected are permuted with
\* KEY_PERMUTATION and cut to approx samples, of which the normalizer
\* keeps mean and standard deviation.
NormFrom(generator, probe, approx, cells) ==
    IF probe.raised # None
    THEN [returned |-> FALSE, raised |-> probe.raised, bs |-> 0,
          number_of_gen_calls |-> 0, Xs |-> <<>>, uses |-> <<KEY>>,
          invoked |-> probe.invoked]
    ELSE LET loop == NormLoop(generator, Ceil(approx, tree_shape(probe.val)),
                         cells, KEY,
                         [Xs |-> <<>>, raised |-> None, uses |-> <<KEY>>,
                          invoked |-> probe.invoked])
         IN  [returned |-> loop.raised = None, raised |-> loop.raised,
              bs |-> tree_shape(probe.val),
              number_of_gen_calls |-> Ceil(approx, tree_shape(probe.val)),
              Xs |-> loop.Xs,
              uses |-> loop.uses \o (IF loop.raised = None
                                     THEN <<KEY_PERMUTATION>> ELSE <<>>),
              invoked |-> loop.invoked]

\* make_normalizer_from_generator(generator, approx_with_large_batchsize):
\* the generator is batched if it is not yet (rcmg.batch_generator with its
\* default batch size of 1), probed with KEY for its batch size, and then
\* called ceil(approx / bs) times.
NormOf(generator, approx, cells) ==
    NormFrom(generator, ApplyGen(generator, KEY, cells), approx, cells)

make_normalizer_from_generator(generator, approx, cells) ==
    NormOf(BatchGenerators("rcmg", FALSE, <<generator>>, <<1>>, FALSE, 1,
                           cells).gen, approx, cells)

\* ------------------------------------------- sim2real/__init__.py zip_xs
\* A transform is written as the sequence of the elementary transforms it
\* applies, first applied first; Transform.zero() applies none.
TransformZero == <<>>

\* algebra.transform_mul(t2, t1) chains t1 and t2: t1 is applied first,
\* then t2 (zip_xs chains xs_transform1, "applied before", as t1 and
\* xs_transform2, "applied after", as t2).
transform_mul(t2, t1) == t1 \o t2

\* The time series zip_xs is given: for link i (from 0) the elementary
\* transforms <<i, 1>> (xs_transform1) and <<i, 2>> (xs_transform2).
XsTransform(part, num_links) == [k \in 1..num_links |-> << <<k - 1, part>> >>]

\* _checks_time_series_of_xs: the xs must hold one transform per link.
ChecksTimeSeries(num_links_xs, num_links_sys) == num_links_xs = num_links_sys

\* f(_, __, i, p) visited for the links from index k (links count from 0,
\* sequences from 1) on, in index order: eps_to_l is the table of the call,
\* a function on -1..(k - 2); ys the values f returned.
RECURSIVE ZipFrom(_, _, _, _, _, _)
ZipFrom(link_parents, xs_transform1, xs_transform2, k, eps_to_l, ys) ==
    IF k > Len(link_parents) THEN ys
    ELSE LET transform == transform_mul(xs_transform2[k], xs_transform1[k])
             global == transform_mul(transform, eps_to_l[link_parents[k]])
         IN  ZipFrom(link_parents, xs_transform1, xs_transform2, k + 1,
                     [j \in -1..(k - 1) |->
                         IF j = k - 1 THEN global ELSE eps_to_l[j]],
                     Append(ys, global))

\* zip_xs(sys, xs_transform1, xs_transform2) at one time step.
zip_xs(link_parents, xs_transform1, xs_transform2) ==
    IF ~ChecksTimeSeries(Len(xs_transform1), Len(link_parents))
       \/ ~ChecksTimeSeries(Len(xs_transform2), Len(link_parents))
    THEN [ok |-> FALSE, xs |-> <<>>]
    ELSE [ok |-> TRUE,
          xs |-> ZipFrom(link_parents, xs_transform1, xs_transform2, 1,
                         [j \in {-1} |-> TransformZero], <<>>)]

\* ------------------------- sim2real/__init__.py delete_to_world_pos_rot
\* A time series of transforms: ndim is tree_ndim(xs) (3: time x link x
\* component) and steps[t][k] the transform of link k - 1 at time step
\* t - 1, here the elementary transform <<"x", t - 1, k - 1>>.
TimeSeries(T, n) ==
    [ndim |-> 3,
     steps |-> [t \in 1..T |-> [k \in 1..n |-> << <<"x", t - 1, k - 1>> >>]]]

\* The transforms of the links at one time step, given without time axis.
NoTimeAxis == [ndim |-> 2, steps |-> <<>>]

\* _checks_time_series_of_xs(sys, xs): both assertions pass.
_checks_time_series_of_xs(link_parents, xs) ==
    /\ xs.ndim = 3
    /\ ChecksTimeSeries(Len(xs.steps[1]), Len(link_parents))

\* f(_, __, i, p) of delete_to_world_pos_rot visited for the links from
\* index k on at one time step: xs holds the step's transforms, ys the
\* values f returned.
RECURSIVE DeleteFromMutFirst(_, _, _, _)
DeleteFromMutFirst(link_parents, xs, k, ys) ==
    IF k > Len(link_parents) THEN ys
    ELSE DeleteFromMutFirst(link_parents, xs, k + 1,
             Append(ys, IF k = 1 THEN TransformZero ELSE xs[k]))

RECURSIVE DeleteFrom(_, _, _, _)
DeleteFrom(link_parents, xs, k, ys) ==
    IF k > Len(link_parents) THEN ys
    ELSE LET p == link_parents[k]
             x_link == IF p = -1 THEN TransformZero ELSE xs[k]
         IN  DeleteFrom(link_parents, xs, k + 1, Append(ys, x_link))

\* delete_to_world_pos_rot(sys, xs): the inner function is mapped over the
\* time axis.
delete_to_world_pos_rot(link_parents, xs) ==
    IF ~_checks_time_series_of_xs(link_parents, xs)
    THEN [ok |-> FALSE, xs |-> None]
    ELSE [ok |-> TRUE,
          xs |-> [ndim |-> 3,
                  steps |-> [t \in DOMAIN xs.steps |->
                      DeleteFrom(link_parents, xs.steps[t], 1, <<>>)]]]

\* ------------------------------------------------- exp/exp.py load_data
\* motion_start or motion_stop left at its default None.
Unset == "None"

\* metadata["timings"]: the motions of a trial in the order of the file,
\* each with the time it starts at.
Timings ==
    << [motion |-> "slow", at |-> 0], [motion |-> "fast", at |-> 4],
       [motion |-> "pause", at |-> 9] >>

\* motion in timings.
InTimings(timings, motion) == \E k \in DOMAIN timings : timings[k].motion = motion

\* motion_sequence.index(motion), counted from 0.
IndexOf(timings, motion) ==
    (CHOOSE k \in DOMAIN timings : timings[k].motion = motion) - 1

\* timings[motion].
TimeOf(timings, motion) == timings[IndexOf(timings, motion) + 1].at

Max(a, b) == IF a >= b THEN a ELSE b

\* The checks of load_data on its window, in the order of the code: the
\* assertion (or the expression) that fails, "" when the window is accepted.
\* stop is motion_stop after its default has been filled in.
WindowErrorMutNoOrder(timings, motion_start, motion_stop) ==
    IF motion_start = Unset
    THEN IF motion_stop = Unset THEN "" ELSE "motion_stop is None"
    ELSE IF ~InTimings(timings, motion_start) THEN "motion_start in timings"
    ELSE IF ~(IndexOf(timings, motion_start) + 1 < Len(timings))
    THEN "next_motion_i < len(motion_sequence)"
    ELSE LET stop == IF motion_stop = Unset
                     THEN timings[IndexOf(timings, motion_start) + 2].motion
                     ELSE motion_stop
         IN  IF ~InTimings(timings, stop) THEN "motion_stop in timings"
             ELSE ""

WindowError(timings, motion_start, motion_stop) ==
    IF motion_start = Unset
    THEN IF motion_stop = Unset THEN "" ELSE "motion_stop is None"
    ELSE IF ~InTimings(timings, motion_start) THEN "motion_start in timings"
    ELSE LET next_motion_i == IndexOf(timings, motion_start) + 1
         IN  IF ~(next_motion_i < Len(timings))
             THEN "next_motion_i < len(motion_sequence)"
             ELSE LET stop == IF motion_stop = Unset
                              THEN timings[next_motion_i + 1].motion
                              ELSE motion_stop
                  IN  IF ~InTimings(timings, stop)
                      THEN "motion_stop in timings"
                      ELSE IF ~(IndexOf(timings, motion_start)
                                    < IndexOf(timings, stop))
                      THEN "Empty sequence, stop <= start"
                      ELSE ""

\* load_data(exp_id, motion_start, motion_stop, left_padd, right_padd): the
\* assertion that failed, or whether and where the trial is cropped (t1,
\* t2: the stop is the motion after motion_start when none is given).
load_data(timings, motion_start, motion_stop, left_padd, right_padd) ==
    LET e == WindowError(timings, motion_start, motion_stop)
    IN  IF e # "" THEN [ok |-> FALSE, err |-> e, cropped |-> FALSE, t1 |-> 0, t2 |-> 0]
        ELSE IF motion_start = Unset
        THEN [ok |-> TRUE, err |-> "", cropped |-> FALSE, t1 |-> 0, t2 |-> 0]
        ELSE LET stop == IF motion_stop = Unset
                         THEN timings[IndexOf(timings, motion_start) + 2].motion
                         ELSE motion_stop
             IN  [ok |-> TRUE, err |-> "", cropped |-> TRUE,
                  t1 |-> Max(TimeOf(timings, motion_start) - left_padd, 0),
                  t2 |-> TimeOf(timings, stop) + right_padd]

\* ------------------------------------ the offline cache (batch.py, rcmg)
\* Python's random module: one process-wide generator. Its state is a
\* number, stepped by a linear congruence; random.seed(seed) sets it.
RngSeed(seed) == seed % 64

RngStep(r) == (13 * r + 7) % 64

\* randbelow(n) from the state reached by one step.
RandBelow(r, n) == (r \div 4) % n

\* random.shuffle(x): for i from len(x)-1 down to 1, swap x[i] with
\* x[randbelow(i + 1)]. Returns the list and the generator's state.
RECURSIVE ShuffleFrom(_, _, _)
ShuffleFrom(x, r, i) ==
    IF i < 1 THEN [data |-> x, rng |-> r]
    ELSE LET r1 == RngStep(r)
             j == RandBelow(r1, i + 1)
         IN  ShuffleFrom([x EXCEPT ![i + 1] = x[j + 1], ![j + 1] = x[i + 1]],
                         r1, i - 1)

Shuffle(x, r) == ShuffleFrom(x, r, Len(x) - 1)

\* data[start:stop] of a Python list: the bounds are clamped.
Slice(data, start, stop) ==
    LET lo == IF start > Len(data) THEN Len(data) ELSE start
        hi == IF stop > Len(data) THEN Len(data) ELSE stop
    IN  IF hi <= lo THEN <<>> ELSE SubSeq(data, lo + 1, hi)

\* Whether a request reshuffles the pool before it serves.
ShuffleNowMutNever(shuffle, i) == FALSE

ShuffleNowMutAlways(shuffle, i) == shuffle

ShuffleNow(shuffle, i) == shuffle /\ i = 0

\* What the constructor checks before it builds the cache: "" when it
\* passes. batched_generator_from_list ("list") asserts drop_last and
\* len(data) >= batchsize; rcmg.offline_generator ("offline") asserts
\* drop_last only. Both then compute len(data) // batchsize.
CtorError(ctor, len, batchsize, drop_last) ==
    IF ~drop_last THEN "drop_last"
    ELSE IF ctor = "list" /\ len < batchsize THEN "len"
    ELSE IF batchsize = 0 THEN "ZeroDivisionError"
    ELSE ""

\* ---------------------------------- pipeline/generator.py make_generator
\* make_generator(configs, bs, sys_data, ...) with n_configs configs and
\* n_sys systems: one closure of build_generator per pair (its setup_fn
\* randomizes the system from its key), batched by rcmg.batch_generator
\* with bs // len(gens) slots each. What batch_generator returned.
make_generator(n_configs, bs, n_sys, devices, cells) ==
    LET gens == [k \in 1..(n_sys * n_configs) |-> BaseGen(2)]
        batchsizes == [k \in 1..Len(gens) |-> bs \div Len(gens)]
    IN  BatchGenerators("rcmg", TRUE, gens, batchsizes, FALSE, devices, cells)

\* What a call o of a batched generator shows: the exception raised, the
\* size of the batch axis of what it returned, and the generator of every
\* slot in the order of the batch.
CallShows(o) ==
    [raised |-> o.raised,
     samples |-> IF o.raised = None THEN tree_shape(o.val) ELSE 0,
     batch_arr |-> Concat(o.batch_arr)]

\* What one call of the generator that r holds shows (None: r holds none).
OutputOf(r, key, cells) ==
    IF r.status # "ok" THEN None ELSE CallShows(ApplyGen(r.gen, key, cells))

\* ------------------------------------------------------------ ml/base.py
\* A filter object: an instance of a subclass of AbstractFilter that
\* inherits save, load, nojit, _pre_save and _post_load (wrapper FALSE), or
\* of a subclass of AbstractFilterWrapper around the filter _filter.
PlainFilter(cls) == [cls |-> cls, wrapper |-> FALSE, _filter |-> None]

Wrapper(cls, f) == [cls |-> cls, wrapper |-> TRUE, _filter |-> f]

\* f.nojit(): AbstractFilter returns self; AbstractFilterWrapper sets
\* self._filter = self.unwrapped.nojit() and returns self. The object as
\* the call leaves and returns it.
RECURSIVE nojit(_)
nojit(f) ==
    IF ~f.wrapper THEN f ELSE [f EXCEPT !._filter = nojit(@)]

\* AbstractFilter._post_load(filter): the body is pass.
AbstractFilter_post_load(f) == None

\* type(f)._post_load(f): AbstractFilterWrapper sets wrapper._filter to
\* what the inner filter's _post_load returns, and returns the wrapper.
RECURSIVE _post_load(_)
_post_load(f) ==
    IF ~f.wrapper THEN AbstractFilter_post_load(f)
    ELSE [f EXCEPT !._filter = _post_load(@)]

\* f.save(path): _pre_save does nothing in either class; the file then
\* holds a pickle of self.nojit(). The object and the file afterwards.
save(f) == [f |-> nojit(f), file |-> nojit(f)]

\* cls.load(path), isWrapper telling whether cls derives from
\* AbstractFilterWrapper: cls._post_load(pickle_load(path)). A wrapper
\* class reads the attribute _filter, which a plain filter does not have.
load(isWrapper, pickle) ==
    IF ~isWrapper
    THEN [raised |-> FALSE, ret |-> AbstractFilter_post_load(pickle)]
    ELSE IF ~pickle.wrapper THEN [raised |-> TRUE, ret |-> None]
    ELSE [raised |-> FALSE, ret |-> _post_load(pickle)]

\* -------------------------------------- sim2real/__init__.py unzip_xs
\* Transforms with values: a position in the plane and a rotation by
\* quarter turns (0..3). As in the transform algebra, (pos, rot) translates
\* by pos and then rotates by rot.
Rotate(v, q) ==
    CASE q = 0 -> v
      [] q = 1 -> <<-v[2], v[1]>>
      [] q = 2 -> <<-v[1], -v[2]>>
      [] OTHER -> <<v[2], -v[1]>>

quat_inv(q) == (4 - q) % 4

quat_mul(q2, q1) == (q2 + q1) % 4

Unit == [pos |-> <<0, 0>>, rot |-> 0]

\* The value of t1 applied first and t2 then, and of the inverse.
ValueMul(t2, t1) ==
    [pos |-> <<t1.pos[1] + Rotate(t2.pos, quat_inv(t1.rot))[1],
               t1.pos[2] + Rotate(t2.pos, quat_inv(t1.rot))[2]>>,
     rot |-> quat_mul(t2.rot, t1.rot)]

ValueInv(t) ==
    [pos |-> Rotate(<<-t.pos[1], -t.pos[2]>>, t.rot), rot |-> quat_inv(t.rot)]

\* The value (pos, rot) of a transform written as the sequence of the
\* transforms it applies.
RECURSIVE Value(_)
Value(t) ==
    IF t = <<>> THEN Unit
    ELSE ValueMul(t[Len(t)], Value(SubSeq(t, 1, Len(t) - 1)))

\* algebra.transform_inv(t): undoes the transforms of t, last first.
transform_inv(t) == [k \in 1..Len(t) |-> ValueInv(t[Len(t) + 1 - k])]

\* Transform.create(pos=pos) and Transform.create(rot=rot).
CreatePos(pos) == << [pos |-> pos, rot |-> 0] >>

CreateRot(rot) == << [pos |-> <<0, 0>>, rot |-> rot] >>

\* f(_, __, i, p) of unzip_xs visited for the links from index k on at one
\* time step: xs holds the step's transforms, ys the pairs (transform1_pos,
\* transform2_rot) f returned.
RECURSIVE UnzipFromMutNoInv(_, _, _, _)
UnzipFromMutNoInv(link_parents, xs, k, ys) ==
    IF k > Len(link_parents) THEN ys
    ELSE LET p == link_parents[k]
             x_parent_to_link ==
                 IF p = -1 THEN xs[k] ELSE transform_mul(xs[k], xs[p + 1])
         IN  UnzipFromMutNoInv(link_parents, xs, k + 1,
                 Append(ys, <<CreatePos(Value(x_parent_to_link).pos),
                              CreateRot(Value(x_parent_to_link).rot)>>))

RECURSIVE UnzipFrom(_, _, _, _)
UnzipFrom(link_parents, xs, k, ys) ==
    IF k > Len(link_parents) THEN ys
    ELSE LET p == link_parents[k]
             x_parent_to_link ==
                 IF p = -1 THEN xs[k]
                 ELSE transform_mul(xs[k], transform_inv(xs[p + 1]))
         IN  UnzipFrom(link_parents, xs, k + 1,
                 Append(ys, <<CreatePos(Value(x_parent_to_link).pos),
                              CreateRot(Value(x_parent_to_link).rot)>>))

\* What scan.tree returns of the pairs: the two stacked time steps.
Unstacked(ys, part) == [k \in DOMAIN ys |-> ys[k][part]]

\* unzip_xs(sys, xs): the inner function is mapped over the time axis.
unzip_xs(link_parents, xs) ==
    IF ~_checks_time_series_of_xs(link_parents, xs)
    THEN [ok |-> FALSE, transform1 |-> None, transform2 |-> None]
    ELSE [ok |-> TRUE,
          transform1 |->
              [ndim |-> 3,
               steps |-> [t \in DOMAIN xs.steps |->
                   Unstacked(UnzipFrom(link_parents, xs.steps[t], 1, <<>>), 1)]],
          transform2 |->
              [ndim |-> 3,
               steps |-> [t \in DOMAIN xs.steps |->
                   Unstacked(UnzipFrom(link_parents, xs.steps[t], 1, <<>>), 2)]]]

\* zip_xs(sys, xs_transform1, xs_transform2) on time series: the inner
\* function is mapped over the time axis.
ZipSeries(link_parents, xs_transform1, xs_transform2) ==
    [t \in DOMAIN xs_transform1.steps |->
        zip_xs(link_parents, xs_transform1.steps[t], xs_transform2.steps[t])]

\* ---------------------------------------- sim2real/__init__.py match_xs
\* The levels of the logging module.
NOTSET == 0

INFO == 20

WARNING == 30

\* Links are named by their index in the larger system sys_xs. f of
\* xs_from_raw looks every link name of sys up in link_name_pos_rot, which
\* match_xs filled from the links of sys_xs: a name sys_xs does not have
\* raises KeyError.
KnownNames(names, num_links) == \A k \in DOMAIN names : names[k] < num_links

\* xs_from_raw(sys, ..., eps_frame="none", qinv=False) on the time series
\* steps: per time step the transforms of the links of sys, in its order.
xs_from_raw(names, steps) ==
    [ndim |-> 3,
     steps |-> [t \in DOMAIN steps |->
                   [k \in DOMAIN names |-> steps[t][names[k] + 1]]]]

\* match_xs(sys, xs, sys_xs) with logging disabled up to level before:
\* whether it returned, what, and the level it leaves.
match_xs(names, xs, link_parents_xs, before) ==
    IF ~_checks_time_series_of_xs(link_parents_xs, xs)
    THEN [ok |-> FALSE, raised |-> "AssertionError", xs |-> None,
          disable |-> before]
    ELSE IF ~KnownNames(names, Len(link_parents_xs))
    THEN [ok |-> FALSE, raised |-> "KeyError", xs |-> None,
          disable |-> WARNING]
    ELSE [ok |-> TRUE, raised |-> "", xs |-> xs_from_raw(names, xs.steps),
          disable |-> INFO]

\* ------------------------------ several offline caches in one process
\* One request generator(key) to a cache whose variables are cache, with
\* Python's random generator in state r: the data and the cursor it leaves,
\* the generator's state, and the batch it returns. The key is deleted
\* unread.
Served(cache, r) ==
    LET sh == IF ShuffleNow(cache.shuffle, cache.i)
              THEN Shuffle(cache.data, r)
              ELSE [data |-> cache.data, rng |-> r]
    IN  [data |-> sh.data, rng |-> sh.rng,
         batch |-> Slice(sh.data, cache.i * cache.batchsize,
                         (cache.i + 1) * cache.batchsize),
         i |-> (cache.i + 1) % cache.N]

\* The closure's variables after the constructor (of either kind) has run
\* on a pool of len samples, the samples being 1..len.
Constructed(ctor, len, batchsize, shuffle, seed) ==
    [built |-> TRUE, ctor |-> ctor, data |-> [k \in 1..len |-> k],
     batchsize |-> batchsize, shuffle |-> shuffle,
     N |-> len \div batchsize, i |-> 0, M |-> len, seed |-> seed,
     served |-> <<>>]

\* The cache after a request that went as s says.
AfterServed(cache, s) ==
    [cache EXCEPT !.data = s.data, !.i = s.i,
                  !.served = Append(@, s.batch)]

\* ------------------------------------------------------------- the state
VARIABLES
    n_devices,   \* jax.local_device_count()
    sys,         \* sys[g]: the closure variable sys of base closure g
    held,        \* what the caller holds: [isList, gens]
    pc,          \* what the caller works with ("held", "cache", "gen", "eager",
                 \* "norm", "fk"), or "error" once a batching call has raised
    err,         \* the assertion that failed
    depth,       \* batching calls made so far
    wasBatched,  \* the last batching call was given one generator, a batched one
    wasSingle,   \* the last batching call was given one generator, not a list
    skipped,     \* the last batching call returned the generator it was given
    dist,        \* the last call of distribute_batchsize: its argument and result
    warnings,    \* notices emitted (warnings.warn)
    skips,       \* times a batching call returned its argument
    invoked,     \* base generators invoked by the last operation: <<g, key>>
    lastOp,      \* "none", "batch", "call" or "distribute"
    lastKey,     \* key of the last call of the held generator
    repeat,      \* the last call repeated the first call's key after a call
                 \* with another key, which returned something else
    out,         \* what the last call returned
    batch_arr,   \* local batch_arr of the last batched call
    pmap_vmap_keys,  \* local pmap_vmap_keys of the last batched call
    raised,      \* the message of the exception the last call raised (None: none)
    uses,        \* the keys the last batched call used, in the order of use
    built,       \* the closure of build_generator that is called on its own
    trace,       \* what its last call did (None: not called yet)
    firstCall,   \* the first call: <<[key, val]>>, its key and what it returned
    rng,         \* state of Python's process-wide random generator
    c_status,    \* the cache: "none", "ready", or "error" (constructor raised)
    c_ctor,      \* "list" (batched_generator_from_list) or "offline"
    c_data,      \* the pool: data
    c_batchsize, \* batchsize
    c_shuffle,   \* shuffle
    c_N,         \* N
    c_i,         \* the cursor i
    c_M,         \* size of the pool at construction
    c_start,     \* the cursor when the last request began
    c_batch,     \* the batch the last request returned (<<>>: none yet)
    c_raised,    \* the last request raised instead of returning
    epoch,       \* samples served since the last request that began at cursor 0
    epochReqs,   \* requests since then, that one included
    reqs,        \* requests made so far
    pool,        \* what the last filling of a pool did (None: none yet)
    norm,        \* what the last make_normalizer_from_generator did
    zipped,      \* what the last zip_xs did
    call,        \* the last call of a tool that keeps no state: what it was given and what it returned
    caches,      \* the offline caches of the process, when it holds several
    filter,      \* the filter object f the caller holds (None: none yet)
    file,        \* the pickle at path (None: no file)
    loaded,      \* the last load: the class it was called on and what it returned
    disable,     \* logging.root.manager.disable: the level logging.disable was last given (0: nothing disabled)
    matched      \* the last match_xs: the level before it and what it did

vars == <<n_devices, sys, held, pc, err, depth, wasBatched, wasSingle, skipped,
          dist, warnings, skips, invoked, lastOp, lastKey, repeat, out,
          batch_arr, pmap_vmap_keys, raised, uses, built, trace, firstCall, rng, c_status, c_ctor, c_data,
          c_batchsize, c_shuffle, c_N, c_i, c_M, c_start, c_batch, c_raised,
          epoch, epochReqs, reqs, pool, norm, zipped, call, caches, filter, file, loaded, disable, matched>>

\* The variables of the batching calls, but for the closures' systems.
heldVars == <<n_devices, held, pc, err, depth, wasBatched, wasSingle,
              skipped, dist, warnings, skips, invoked, lastOp, lastKey,
              repeat, out, batch_arr, pmap_vmap_keys, raised, uses,
              firstCall>>

lazyVars == <<sys, heldVars>>

genVars == <<built, trace>>

toolVars == <<pool, norm, zipped>>

\* The state of the tools around the generators (sim2real, exp, pipeline,
\* ml): none of the batching calls reads or writes it.
moreVars == <<call, caches, filter, file, loaded, disable, matched>>

cacheVars == <<rng, c_status, c_ctor, c_data, c_batchsize, c_shuffle, c_N,
               c_i, c_M, c_start, c_batch, c_raised, epoch, epochReqs, reqs>>

\* ------------------------------------------------------------ the inputs
Counts == {0, MaxCount, BigBatch, BigBatch + 1}

\* Counts a batched generator is batched again with.
SmallCounts == {0, MaxCount}

\* Lists of n generators, alternating between the closures of ListIds.
AltList(n, first) ==
    [k \in 1..n |-> BaseGen(IF k % 2 = 1 THEN first ELSE 3 - first)]

Supplies ==
    {[isList |-> FALSE, gens |-> <<BaseGen(g)>>] : g \in SupplyIds}
    \cup {[isList |-> TRUE, gens |-> <<BaseGen(1), BaseGen(5)>>]}
    \cup {[isList |-> TRUE, gens |-> AltList(n, first)] :
             n \in 1..MaxGens, first \in ListIds}

RECURSIVE SeqsUpTo(_, _)
SeqsUpTo(S, n) ==
    IF n = 0 THEN {<<>>}
    ELSE LET shorter == SeqsUpTo(S, n - 1)
         IN  shorter \cup {Append(q, x) : q \in shorter, x \in S}

BatchsizeLists == SeqsUpTo(Counts, MaxGens) \ {<<>>}

RebatchsizeLists == {<<c>> : c \in SmallCounts}

\* Lists of counts of a length that fits no supply: such a call fails on
\* the length alone, whatever the counts are.
MismatchLists == {Repeat(MaxCount, n) : n \in 2..MaxGens}

\* The generators and sizes a pool is filled from: closures of
\* build_generator, one size each.
PoolIds == {<<1>>, <<2>>, <<4>>, <<5>>, <<1, 2>>, <<2, 1>>, <<1, 1>>,
            <<1, 5>>, <<5, 1>>}

PoolSizes == {1, MaxCount}

\* The systems zip_xs is called on.
Systems == {ThreeSeg, Chain, Forest, NoDraw}

\* The generators a normalizer is made from: closures of build_generator
\* and a generator batched before.
NormGens ==
    {[isList |-> FALSE, gens |-> <<BaseGen(g)>>] : g \in {1, 2, 3}}
    \cup {[isList |-> FALSE,
           gens |-> <<LazyGen(<<BaseGen(1)>>, <<2>>, FALSE, 2, 1, 2, <<<<0, 0>>>>)>>]}

\* The largest approx_with_large_batchsize followed.
MaxApprox == 3

\* The longest time series followed.
MaxTime == 2

\* The time series the sim2real functions are called on.
XsInputs ==
    {TimeSeries(T, n) : T \in 1..MaxTime, n \in 2..3} \cup {NoTimeAxis}

\* The motions load_data is asked for: those of the trial, one it does not
\* have, and none.
Motions == {"slow", "fast", "pause", "jump", Unset}

\* The paddings, in the unit of the timings.
Padds == {0, 2, 6}

\* The offline caches of one process: the one watched and another one.
CacheIds == {"a", "b"}

\* The most requests made to one of them.
MaxServe == 2

\* A cache that has not been constructed yet.
NoCache ==
    [built |-> FALSE, ctor |-> "", data |-> <<>>, batchsize |-> 0,
     shuffle |-> FALSE, N |-> 0, i |-> 0, M |-> 0, seed |-> 0,
     served |-> <<>>]

\* The sizes of their pools and batches.
CachePools == {2, 3}

CacheBatchsizes == {1, 2}

\* The batch sizes make_generator is asked for.
GeneratorBatchsizes == 1..(MaxCount + 1) \cup {BigBatch}

\* The filters: a plain one, and wrappers around it up to MaxWrap deep.
MaxWrap == 2

Wrappers == {"LPF_FilterWrapper", "ScaleX_FilterWrapper"}

RECURSIVE FiltersUpTo(_)
FiltersUpTo(n) ==
    IF n = 0 THEN {PlainFilter("Filter")}
    ELSE FiltersUpTo(n - 1)
         \cup {Wrapper(w, f) : w \in Wrappers, f \in FiltersUpTo(n - 1)}

Filters == FiltersUpTo(MaxWrap)

\* The levels logging may be disabled up to before match_xs is called.
Levels == {NOTSET, 10, INFO, WARNING, 40}

\* The links of the smaller system, by their names in the larger one.
SmallSystems == {<<0>>, <<0, 1>>, <<1, 2>>, <<0, 3>>}

\* The eps-to-link transforms a time series is made of.
Poses ==
    << [pos |-> <<0, 0>>, rot |-> 0], [pos |-> <<1, 0>>, rot |-> 1],
       [pos |-> <<0, 2>>, rot |-> 3], [pos |-> <<1, 1>>, rot |-> 2] >>

\* A time series of T steps in which link k starts from pose first[k] and
\* moves on to the next pose with every step.
Moving(first, T) ==
    [ndim |-> 3,
     steps |-> [t \in 1..T |-> [k \in DOMAIN first |->
                   << Poses[((first[k] + t - 2) % Len(Poses)) + 1] >>]]]

MovingInputs ==
    {Moving(first, T) : first \in [1..2 -> DOMAIN Poses]
                                     \cup [1..3 -> DOMAIN Poses],
                        T \in 1..MaxTime}

\* What no caller has touched yet.
InitRest ==
    /\ trace = None
    /\ raised = None
    /\ uses = <<>>
    /\ sys = [g \in BaseIds |-> Closure(g).sys0]
    /\ err = ""
    /\ depth = 0
    /\ wasBatched = FALSE
    /\ wasSingle = FALSE
    /\ skipped = FALSE
    /\ dist = <<>>
    /\ warnings = 0
    /\ skips = 0
    /\ invoked = <<>>
    /\ lastOp = "none"
    /\ lastKey = None
    /\ repeat = FALSE
    /\ out = <<>>
    /\ batch_arr = <<>>
    /\ pmap_vmap_keys = <<>>
    /\ firstCall = <<>>
    /\ rng = 0
    /\ c_status = "none"
    /\ c_ctor = ""
    /\ c_data = <<>>
    /\ c_batchsize = 0
    /\ c_shuffle = FALSE
    /\ c_N = 0
    /\ c_i = 0
    /\ c_M = 0
    /\ c_start = 0
    /\ c_batch = <<>>
    /\ c_raised = FALSE
    /\ epoch = <<>>
    /\ epochReqs = 0
    /\ reqs = 0
    /\ pool = None
    /\ norm = None
    /\ zipped = None
    /\ call = None
    /\ caches = [c \in CacheIds |-> NoCache]
    /\ filter = None
    /\ file = None
    /\ loaded = None
    /\ disable = 0
    /\ matched = None

\* The caller either works with generators (pc = "held"), with an offline
\* cache ("cache"), calls one closure of build_generator on its own ("gen"),
\* fills a pool ("eager"), makes a normalizer ("norm") or zips transforms
\* ("fk").
Init ==
    /\ \/ /\ pc = "held"
          /\ n_devices \in 1..MaxDevices
          /\ held \in Supplies
          /\ built = 0
       \/ /\ pc = "cache"
          /\ n_devices = 1
          /\ held = [isList |-> FALSE, gens |-> <<BaseGen(1)>>]
          /\ built = 0
       \/ /\ pc = "gen"
          /\ n_devices = 1
          /\ held = [isList |-> FALSE, gens |-> <<BaseGen(1)>>]
          /\ built \in BaseIds
       \/ /\ pc = "fk"
          /\ n_devices = 1
          /\ held = [isList |-> FALSE, gens |-> <<BaseGen(1)>>]
          /\ built = 0
       \/ /\ pc = "norm"
          /\ n_devices = 1
          /\ held \in NormGens
          /\ built = 0
       \/ /\ pc = "eager"
          /\ n_devices = 1
          /\ held = [isList |-> FALSE, gens |-> <<BaseGen(1)>>]
          /\ built = 0
    /\ InitRest

\* The number of samples one call of gen returns.
RECURSIVE Slots(_)
Slots(gen) ==
    IF gen.kind = "base" THEN 1 ELSE gen.bs_total * Slots(gen.generators[1])

\* The caller batches what it holds; only batches of up to MaxBatch samples
\* are followed.
Batch(entry, batchsizes, stochastic) ==
    /\ pc = "held"
    /\ depth < MaxDepth
    /\ lastOp # "call"
    /\ depth > 0 => batchsizes \in RebatchsizeLists
    /\ Len(batchsizes) \in {1, Len(held.gens)} \/ batchsizes \in MismatchLists
    /\ SumSeq(batchsizes) * Slots(held.gens[1]) <= MaxBatch
    /\ \E r \in {BatchGenerators(entry, held.isList, held.gens, batchsizes,
                                stochastic, n_devices, sys)} :
           /\ pc' = IF r.status = "error" THEN "error" ELSE "held"
           /\ err' = r.err
           /\ held' = IF r.status = "error" THEN held
                      ELSE [isList |-> FALSE, gens |-> <<r.gen>>]
           /\ sys' = CellsAfter(sys, r.invoked)
           /\ invoked' = Invocations(r.invoked)
           /\ dist' = r.dist
           /\ warnings' = IF r.warned THEN warnings + 1 ELSE warnings
           /\ skips' = IF r.status = "skip" THEN skips + 1 ELSE skips
           /\ skipped' = (r.status = "skip")
           /\ raised' = r.raised
    /\ depth' = depth + 1
    /\ wasSingle' = ~held.isList
    /\ wasBatched' = (~held.isList /\ held.gens[1].kind = "lazy")
    /\ lastOp' = "batch"
    /\ UNCHANGED <<n_devices, lastKey, repeat, out, batch_arr,
                   pmap_vmap_keys, uses, firstCall>>
    /\ UNCHANGED <<cacheVars, genVars, toolVars>>
    /\ UNCHANGED moreVars

\* The caller calls the generator it holds.
Call(key) ==
    /\ pc = "held"
    /\ ~held.isList
    /\ lastOp # "distribute"
    /\ \E r \in {ApplyGen(held.gens[1], key, sys)} :
           /\ out' = r.val
           /\ raised' = r.raised
           /\ sys' = CellsAfter(sys, r.invoked)
           /\ invoked' = Invocations(r.invoked)
           /\ batch_arr' = r.batch_arr
           /\ pmap_vmap_keys' = r.pmap_vmap_keys
           /\ uses' = r.uses
           /\ firstCall' = IF firstCall = <<>>
                           THEN << [key |-> key, val |-> r.val] >>
                           ELSE firstCall
           /\ repeat' = /\ firstCall # <<>> /\ firstCall[1].key = key
                        /\ lastKey # key /\ out # r.val
    /\ lastKey' = key
    /\ lastOp' = "call"
    /\ UNCHANGED <<n_devices, held, pc, err, depth, wasBatched, wasSingle,
                   skipped, dist, warnings, skips>>
    /\ UNCHANGED <<cacheVars, genVars, toolVars>>
    /\ UNCHANGED moreVars

\* The caller asks utils.distribute_batchsize for the grid of a batch size.
Distribute(batchsize) ==
    /\ pc = "held"
    /\ lastOp \in {"none", "distribute"}
    /\ dist' = << [batchsize |-> batchsize,
                   ret |-> distribute_batchsize(batchsize, n_devices)] >>
    /\ lastOp' = "distribute"
    /\ UNCHANGED <<n_devices, sys, held, pc, err, depth, wasBatched, wasSingle,
                   skipped, warnings, skips, invoked, lastKey, repeat, out,
                   batch_arr, pmap_vmap_keys, raised, uses, firstCall>>
    /\ UNCHANGED <<cacheVars, genVars, toolVars>>
    /\ UNCHANGED moreVars

\* batched_generator_from_list(data, batchsize, shuffle, drop_last, seed)
\* on a pool of len samples, or rcmg.offline_generator(...) once it has
\* filled its pool with len samples. The samples of the pool are 1..len.
BuildCache(ctor, len, batchsize, shuffle, drop_last, seed) ==
    /\ pc = "cache"
    /\ c_status = "none"
    /\ LET e == CtorError(ctor, len, batchsize, drop_last)
       IN  IF e # ""
           THEN /\ c_status' = "error"
                /\ err' = e
                /\ UNCHANGED <<rng, c_data, c_batchsize, c_shuffle, c_N, c_M>>
           ELSE /\ c_status' = "ready"
                /\ err' = ""
                /\ c_data' = [k \in 1..len |-> k]
                /\ c_M' = len
                /\ c_batchsize' = batchsize
                /\ c_shuffle' = shuffle
                /\ c_N' = len \div batchsize
                /\ rng' = RngSeed(seed)
    /\ c_ctor' = ctor
    /\ c_i' = 0
    /\ UNCHANGED <<n_devices, sys, held, pc, depth, wasBatched, wasSingle,
                   skipped, dist, warnings, skips, invoked, lastOp, lastKey,
                   repeat, out, batch_arr, pmap_vmap_keys, raised, uses,
                   firstCall, c_start, c_batch, c_raised, epoch, epochReqs, reqs>>
    /\ UNCHANGED <<genVars, toolVars>>
    /\ UNCHANGED moreVars

\* One request generator(key) to the cache; the key is deleted unread.
Request ==
    /\ pc = "cache"
    /\ c_status = "ready"
    /\ reqs < MaxRequests
    /\ LET sh == IF ShuffleNow(c_shuffle, c_i) THEN Shuffle(c_data, rng)
                 ELSE [data |-> c_data, rng |-> rng]
           start == c_i * c_batchsize
           stop == (c_i + 1) * c_batchsize
           batch == Slice(sh.data, start, stop)
       IN  /\ c_data' = sh.data
           /\ rng' = sh.rng
           /\ c_start' = c_i
           /\ IF c_N = 0
              THEN \* (i + 1) % N raises ZeroDivisionError: nothing is returned
                   /\ c_raised' = TRUE
                   /\ UNCHANGED <<c_i, c_batch, epoch, epochReqs>>
              ELSE /\ c_raised' = FALSE
                   /\ c_i' = (c_i + 1) % c_N
                   /\ c_batch' = batch
                   /\ epoch' = IF c_i = 0 THEN batch ELSE epoch \o batch
                   /\ epochReqs' = IF c_i = 0 THEN 1 ELSE epochReqs + 1
    /\ reqs' = reqs + 1
    /\ UNCHANGED <<lazyVars, genVars, toolVars>>
    /\ UNCHANGED <<c_status, c_ctor, c_batchsize, c_shuffle, c_N, c_M>>
    /\ UNCHANGED moreVars

\* A call generator(key) of the closure built, with nothing around it.
GenCall(key) ==
    /\ pc = "gen"
    /\ \E t \in {GeneratorTrace(built, sys[built], key)} :
           /\ trace' = t
           /\ sys' = [sys EXCEPT ![built] = SysAfterCall(@, t.sys_mod)]
    /\ UNCHANGED <<heldVars, cacheVars, built, toolVars>>
    /\ UNCHANGED moreVars

\* The caller fills a pool.
EagerToList(entry, ids, sizes, seed) ==
    /\ pc = "eager"
    /\ pool = None
    /\ \E r \in {batch_generators_eager_to_list(entry,
                    [k \in DOMAIN ids |-> BaseGen(ids[k])], sizes, seed, sys)} :
           /\ pool' = [entry |-> entry, ids |-> ids, sizes |-> sizes,
                       seed |-> seed, ret |-> r]
           /\ sys' = CellsAfter(sys, r.invoked)
    /\ UNCHANGED <<heldVars, cacheVars, genVars, norm, zipped>>
    /\ UNCHANGED moreVars

\* The caller zips transforms of n1 and n2 links along system s.
ZipXs(s, n1, n2) ==
    /\ pc = "fk"
    /\ zipped' = [link_parents |-> s.link_parents,
                  xs_transform1 |-> XsTransform(1, n1),
                  xs_transform2 |-> XsTransform(2, n2),
                  ret |-> zip_xs(s.link_parents, XsTransform(1, n1),
                                 XsTransform(2, n2))]
    /\ UNCHANGED <<lazyVars, cacheVars, genVars, pool, norm>>
    /\ UNCHANGED moreVars

\* The caller makes a normalizer from the generator it holds.
MakeNormalizer(approx) ==
    /\ pc = "norm"
    /\ norm = None
    /\ \E r \in {make_normalizer_from_generator(held.gens[1], approx, sys)} :
           /\ norm' = [approx |-> approx, ret |-> r]
           /\ sys' = CellsAfter(sys, r.invoked)
    /\ UNCHANGED <<heldVars, cacheVars, genVars, pool, zipped>>
    /\ UNCHANGED moreVars

\* The variables no stateless tool touches.
\* The variables of the filter saved and loaded, and of logging.
mlVars == <<filter, file, loaded>>

logVars == <<disable, matched>>

pureFrame == <<lazyVars, cacheVars, genVars, toolVars, caches, mlVars,
               logVars>>

\* The caller deletes the transforms to the world from a time series.
DeleteToWorld(s, xs) ==
    /\ pc = "pure"
    /\ call = None
    /\ call' = [fn |-> "delete_to_world_pos_rot", sys |-> s, xs |-> xs,
                ret |-> delete_to_world_pos_rot(s.link_parents, xs)]
    /\ UNCHANGED pureFrame

\* The caller loads the data of a trial.
LoadData(motion_start, motion_stop, left_padd, right_padd) ==
    /\ pc = "pure"
    /\ call = None
    /\ call' = [fn |-> "load_data", motion_start |-> motion_start,
                motion_stop |-> motion_stop, left_padd |-> left_padd,
                right_padd |-> right_padd,
                ret |-> load_data(Timings, motion_start, motion_stop,
                                  left_padd, right_padd)]
    /\ UNCHANGED pureFrame

\* The variables the caches of a process holding several leave alone.
cachesFrame ==
    <<lazyVars, genVars, toolVars, call, c_status, c_ctor, c_data,
      c_batchsize, c_shuffle, c_N, c_i, c_M, c_start, c_batch, c_raised,
      epoch, epochReqs, reqs, mlVars, logVars>>

\* The process constructs cache c; constructions that pass the assertions
\* and hold at least one batch are followed.
CacheBuild(c, ctor, len, batchsize, shuffle, seed) ==
    /\ pc = "caches"
    /\ ~caches[c].built
    /\ CtorError(ctor, len, batchsize, TRUE) = ""
    /\ len >= batchsize
    /\ caches' = [caches EXCEPT
                     ![c] = Constructed(ctor, len, batchsize, shuffle, seed)]
    /\ rng' = RngSeed(seed)
    /\ UNCHANGED cachesFrame

\* One request generator(key) to cache c.
CacheRequest(c, key) ==
    /\ pc = "caches"
    /\ caches[c].built
    /\ Len(caches[c].served) < MaxServe
    /\ \E s \in {Served(caches[c], rng)} :
           /\ caches' = [caches EXCEPT ![c] = AfterServed(@, s)]
           /\ rng' = s.rng
    /\ UNCHANGED cachesFrame

\* The caller makes a generator with pipeline.make_generator and calls it
\* once.
MakeGenerator(n_configs, bs, n_sys, key) ==
    /\ pc = "pure"
    /\ call = None
    /\ \E r \in {make_generator(n_configs, bs, n_sys, n_devices, sys)} :
           call' = [fn |-> "make_generator", n_configs |-> n_configs,
                    bs |-> bs, n_sys |-> n_sys, status |-> r.status,
                    err |-> r.err, output |-> OutputOf(r, key, sys)]
    /\ UNCHANGED pureFrame

\* The caller constructs a filter.
NewFilter(f) ==
    /\ pc = "ml"
    /\ filter = None
    /\ filter' = f
    /\ UNCHANGED <<lazyVars, cacheVars, genVars, toolVars, call, caches,
                   file, loaded, logVars>>

\* f.save(path).
Save ==
    /\ pc = "ml"
    /\ filter # None
    /\ file = None
    /\ filter' = save(filter).f
    /\ file' = save(filter).file
    /\ UNCHANGED <<lazyVars, cacheVars, genVars, toolVars, call, caches,
                   loaded, logVars>>

\* cls.load(path), with the class of f or with AbstractFilter.
Load(own) ==
    /\ pc = "ml"
    /\ file # None
    /\ loaded = None
    /\ loaded' = [own |-> own,
                  out |-> load(own /\ filter.wrapper, file)]
    /\ UNCHANGED <<lazyVars, cacheVars, genVars, toolVars, call, caches,
                   filter, file, logVars>>

\* The process disables logging up to a level: logging.disable(level).
LoggingDisable(level) ==
    /\ pc = "logging"
    /\ matched = None
    /\ disable = NOTSET
    /\ level # NOTSET
    /\ disable' = level
    /\ UNCHANGED <<lazyVars, cacheVars, genVars, toolVars, call, caches,
                   mlVars, matched>>

\* The caller matches the transforms xs of system s to a smaller system.
MatchXs(names, xs, s) ==
    /\ pc = "logging"
    /\ matched = None
    /\ \E r \in {match_xs(names, xs, s.link_parents, disable)} :
           /\ matched' = [before |-> disable, names |-> names, xs |-> xs,
                          ret |-> r]
           /\ disable' = r.disable
    /\ UNCHANGED <<lazyVars, cacheVars, genVars, toolVars, call, caches,
                   mlVars>>

\* The caller unzips a time series and zips the two parts again.
UnzipZip(s, xs) ==
    /\ pc = "pure"
    /\ call = None
    /\ \E r \in {unzip_xs(s.link_parents, xs)} :
           call' = [fn |-> "unzip_xs", sys |-> s, xs |-> xs, ret |-> r,
                    zipped |-> IF r.ok
                               THEN ZipSeries(s.link_parents, r.transform1,
                                              r.transform2)
                               ELSE None]
    /\ UNCHANGED pureFrame

Next ==
    \/ \E batchsize \in 0..MaxBatch : Distribute(batchsize)
    \/ \E entry \in {"lazy", "rcmg"}, batchsizes \in BatchsizeLists,
          stochastic \in BOOLEAN : Batch(entry, batchsizes, stochastic)
    \/ \E key \in CallerKeys : Call(key)
    \/ \E ctor \in {"list", "offline"}, len \in 1..MaxPool,
          batchsize \in 0..(MaxPool + 1), shuffle \in BOOLEAN,
          drop_last \in BOOLEAN, seed \in 1..MaxSeed :
          BuildCache(ctor, len, batchsize, shuffle, drop_last, seed)
    \/ Request
    \/ \E key \in CallerKeys : GenCall(key)
    \/ \E entry \in {"lazy", "rcmg"}, ids \in PoolIds,
          sizes \in SeqsUpTo(PoolSizes, MaxGens), seed \in 1..MaxSeed :
          EagerToList(entry, ids, sizes, seed)
    \/ \E s \in Systems, n1 \in 2..3, n2 \in 2..3 : ZipXs(s, n1, n2)
    \/ \E approx \in 1..MaxApprox : MakeNormalizer(approx)

Spec == Init /\ [][Next]_vars

\* ------------------------------------------- the tools around the core
\* The caller calls a stateless tool once ("pure"), holds several offline
\* caches ("caches"), saves and loads a filter ("ml") or matches
\* transforms in a process that logs ("logging").
ToolInit ==
    /\ \/ /\ pc = "pure"
          /\ n_devices \in 1..MaxDevices
       \/ /\ pc \in {"caches", "ml", "logging"}
          /\ n_devices = 1
    /\ held = [isList |-> FALSE, gens |-> <<BaseGen(1)>>]
    /\ built = 0
    /\ InitRest

ToolNext ==
    \/ \E s \in Systems, xs \in XsInputs : DeleteToWorld(s, xs)
    \/ \E motion_start \in Motions, motion_stop \in Motions,
          left_padd \in Padds, right_padd \in {0, 1} :
          LoadData(motion_start, motion_stop, left_padd, right_padd)
    \/ \E n_configs \in 1..MaxGens, bs \in GeneratorBatchsizes,
          n_sys \in 1..MaxGens, key \in CallerKeys :
          MakeGenerator(n_configs, bs, n_sys, key)
    \/ \E s \in Systems, xs \in MovingInputs : UnzipZip(s, xs)
    \/ \E c \in CacheIds, ctor \in {"list", "offline"}, len \in CachePools,
          batchsize \in CacheBatchsizes, shuffle \in BOOLEAN,
          seed \in 1..MaxSeed :
          CacheBuild(c, ctor, len, batchsize, shuffle, seed)
    \/ \E c \in CacheIds, key \in CallerKeys : CacheRequest(c, key)
    \/ \E f \in Filters : NewFilter(f)
    \/ Save
    \/ \E own \in BOOLEAN : Load(own)
    \/ \E level \in Levels : LoggingDisable(level)
    \/ \E names \in SmallSystems, xs \in XsInputs, s \in Systems :
          MatchXs(names, xs, s)

ToolSpec == ToolInit /\ [][ToolNext]_vars

\* ---------------------------------------------------------- the claims
HeldGen == held.gens[1]

HoldsLazy == pc = "held" /\ ~held.isList /\ HeldGen.kind = "lazy"

\* The grid position of flat slot f (counted from 1) in a grid of vmap lanes.
RowOf(f, vmap) == ((f - 1) \div vmap) + 1

LaneOf(f, vmap) == ((f - 1) % vmap) + 1

\* The slot -> generator-index map of a static batched generator.
SlotMap(gen) ==
    [f \in 1..(gen.pmap * gen.vmap) |->
        gen.batch_arr_nonstoch[RowOf(f, gen.vmap)][LaneOf(f, gen.vmap)]]

\* Every generator batched by gen is a closure of build_generator.
AllBase(gen) == \A k \in DOMAIN gen.generators : gen.generators[k].kind = "base"

PrefixSum(counts, i) == SumSeq(SubSeq(counts, 1, i))

\* C1: in static mode the slot -> generator map is the run-length expansion
\* of the counts: slot f belongs to the generator i whose range of slots
\* (after the counts of the generators before it) contains f; its length is
\* the sum of the counts, index i occurs exactly counts[i] times, every call
\* uses this same map, and the slots of the output come from the generators
\* the map names.
C1_BatchPartition ==
    (HoldsLazy /\ ~HeldGen.stochastic) =>
        LET gen == HeldGen
            counts == gen.batchsizes
            map == SlotMap(gen)
        IN  /\ Len(counts) = Len(gen.generators)
            /\ Len(map) = SumSeq(counts)
            /\ gen.bs_total = SumSeq(counts)
            /\ \A f \in DOMAIN map :
                   /\ map[f] \in 0..(Len(counts) - 1)
                   /\ PrefixSum(counts, map[f]) < f
                   /\ f <= PrefixSum(counts, map[f] + 1)
            /\ \A i \in DOMAIN counts : CountOf(map, i - 1) = counts[i]
            /\ lastOp = "call" => batch_arr = gen.batch_arr_nonstoch
            /\ (lastOp = "call" /\ raised = None /\ AllBase(gen)) =>
                   /\ Len(invoked) = Len(map)
                   /\ \A f \in DOMAIN map :
                          invoked[f][1] = gen.generators[map[f] + 1].id

C1_Witness ==
    /\ HoldsLazy /\ ~HeldGen.stochastic
    /\ lastOp = "call" /\ repeat
    /\ Len(HeldGen.batchsizes) = 2
    /\ HeldGen.batchsizes[1] > 0 /\ HeldGen.batchsizes[2] > 0
    /\ HeldGen.pmap > 1

\* The key the B sub-keys of the last batched call were split from.
SplitKey == IF HeldGen.stochastic THEN Split(lastKey, 2)[1] ELSE lastKey

\* C2: in every batched call the key is split into exactly B = P*V sub-keys,
\* sub-key f sits at grid cell (f div V, f mod V), every cell runs the
\* generator assigned to it with the sub-key at it, and slot f of the merged
\* output holds what the generator assigned to flat slot f returns for
\* sub-key f.
C2_KeySlotPlacement ==
    (HoldsLazy /\ lastOp = "call" /\ raised = None) =>
        LET gen == HeldGen
            V == gen.vmap
            B == gen.pmap * gen.vmap
            sub == Split(SplitKey, B)
            assigned(f) == gen.generators[batch_arr[RowOf(f, V)][LaneOf(f, V)] + 1]
        IN  /\ B = gen.bs_total
            /\ DOMAIN pmap_vmap_keys = 1..gen.pmap
            /\ \A p \in 1..gen.pmap : DOMAIN pmap_vmap_keys[p] = 1..V
            /\ \A f \in 0..(B - 1) :
                   pmap_vmap_keys[(f \div V) + 1][(f % V) + 1] = sub[f + 1]
            /\ out.lead[1] = B
            /\ out.cells =
                   Concat([f \in 1..B |-> ApplyGen(assigned(f), sub[f], sys).val.cells])
            /\ AllBase(gen) => invoked = [f \in 1..B |-> <<assigned(f).id, sub[f]>>]

C2_Witness ==
    /\ HoldsLazy /\ lastOp = "call"
    /\ HeldGen.pmap = 2 /\ HeldGen.vmap > 1
    /\ Len(HeldGen.generators) = 2
    /\ \E p \in 1..2 : \E v, w \in 1..HeldGen.vmap : batch_arr[p][v] # batch_arr[p][w]

\* The static batched generator gen laid out on a (P, V) grid instead.
Regrid(gen, P, V) ==
    [gen EXCEPT !.pmap = P, !.vmap = V,
                !.batch_arr_nonstoch = Reshape(SlotMap(gen), P, V)]

\* C3: the flat batch a static batched generator returns for a key does not
\* depend on the (P, V) split: laid out on any grid with P*V = B it returns,
\* slot for slot, what the call returned.
C3_SplitIndependence ==
    (HoldsLazy /\ ~HeldGen.stochastic /\ lastOp = "call" /\ raised = None) =>
        \A P \in 1..HeldGen.bs_total :
            HeldGen.bs_total % P = 0 =>
                ApplyGen(Regrid(HeldGen, P, HeldGen.bs_total \div P),
                         lastKey, sys).val = out

C3_Witness ==
    /\ HoldsLazy /\ ~HeldGen.stochastic /\ lastOp = "call"
    /\ Len(HeldGen.generators) = 1
    /\ HeldGen.bs_total = BigBatch
    /\ HeldGen.pmap = 2 /\ HeldGen.vmap = BigBatch \div 2

\* C4: distribute_batchsize(B) is (1, B) for B <= 8; for B > 8 it is (P, V)
\* with P the device count and V = B / P; P*V = B for every pair returned;
\* and it fails instead of returning exactly when B > 8 and the device count
\* does not divide B.
C4_SizingPolicy ==
    dist # <<>> =>
        LET B == dist[1].batchsize
            d == dist[1].ret
        IN  /\ B <= 8 => (d.ok /\ d.pmap = 1 /\ d.vmap = B)
            /\ (B > 8 /\ d.ok) => (d.pmap = n_devices /\ d.vmap * n_devices = B)
            /\ d.ok => d.pmap * d.vmap = B
            /\ B > 8 => (d.ok <=> B % n_devices = 0)

C4_Witness ==
    /\ dist # <<>>
    /\ dist[1].batchsize > 8 /\ dist[1].ret.ok /\ dist[1].ret.pmap = 2
    /\ lastOp = "batch"

\* C5: when the total batch size is not divisible by the number of parallel
\* units, the batching call raises before any supplied generator has been
\* invoked, for a list of generators and for a single generator alike.
C5_EagerShapeError ==
    (pc = "error" /\ err = "shape") => invoked = <<>>

\* C6: a batching call on a single generator returns that very generator
\* exactly when it is already batched: a batched one is never batched a
\* second time, one not yet batched is never returned unchanged.
C6_NoOpIdempotence ==
    (lastOp = "batch" /\ wasSingle) =>
        /\ wasBatched => (pc = "held" /\ skipped)
        /\ ~wasBatched => ~skipped

\* C7: every time a batching entry point returns the generator it was
\* given, it has emitted a notice.
C7_SkipObservable == warnings = skips

\* C8: with a batch size K that divides the pool size M, the requests of an
\* epoch (from a request that begins at cursor 0 on) serve no sample twice;
\* the cursor is back at 0 exactly when M/K requests have been made, and
\* by then every sample of the pool has been served exactly once; with
\* shuffle on or off.
C8_CursorCoverage ==
    (c_status = "ready" /\ c_batchsize > 0 /\ c_M % c_batchsize = 0 /\ reqs > 0) =>
        /\ epochReqs <= c_M \div c_batchsize
        /\ (c_i = 0) <=> (epochReqs = c_M \div c_batchsize)
        /\ Len(epoch) = epochReqs * c_batchsize
        /\ \A sample \in 1..c_M : CountOf(epoch, sample) <= 1
        /\ c_i = 0 => \A sample \in 1..c_M : CountOf(epoch, sample) = 1

C8_Witness ==
    /\ c_status = "ready" /\ c_shuffle
    /\ c_M = 4 /\ c_batchsize = 2
    /\ reqs = 4 /\ c_i = 0
    /\ c_data # <<1, 2, 3, 4>>

\* C9: the cursor of a cache always satisfies 0 <= i < N with
\* N = floor(M / K); a served batch holds exactly K samples, those at pool
\* positions [i*K, (i+1)*K) for the cursor i the request began with, none of
\* them at or beyond position N*K.
C9_WholeBatchesOnly ==
    c_status = "ready" =>
        /\ c_N = c_M \div c_batchsize
        /\ 0 <= c_i /\ c_i < c_N
        /\ (reqs > 0 /\ ~c_raised) =>
               /\ Len(c_batch) = c_batchsize
               /\ (c_start + 1) * c_batchsize <= c_N * c_batchsize
               /\ c_batch = SubSeq(c_data, c_start * c_batchsize + 1,
                                   (c_start + 1) * c_batchsize)

\* C10: a call of a generator of build_generator, or of a batched generator
\* of batch_generators_lazy (static or stochastic), returns what the first
\* call with the same key returned, whatever calls with other keys came in
\* between, and leaves the system captured by every closure as it was at
\* construction: no call writes state that a later call reads.
C10_Determinism ==
    lastOp = "call" =>
        /\ firstCall[1].key = lastKey => out = firstCall[1].val
        /\ sys = [g \in BaseIds |-> Closure(g).sys0]

C10_Witness ==
    /\ lastOp = "call" /\ repeat
    /\ HoldsLazy /\ HeldGen.stochastic
    /\ \E k \in 1..Len(invoked) : Closure(invoked[k][1]).setup = "rand"
    /\ firstCall[1].key = lastKey

\* ------------------------------------------------------------ claim C11
\* The links of closure g whose joint type has no draw function.
NoDrawLinks(g) ==
    {i \in DOMAIN Closure(g).sys0.link_types :
        ~HasDrawFn(Closure(g).sys0.link_types[i])}

\* C11: when generator reaches a link whose joint type has no draw function,
\* the call ends at that link with an Exception whose message names that
\* joint type; finalize_fn is not called and no sample is returned. A
\* system all of whose types have a draw function raises nothing.
C11_MissingDrawFn ==
    (pc = "gen" /\ trace # None) =>
        IF NoDrawLinks(built) = {}
        THEN trace.raised = None /\ trace.sample # None
        ELSE LET i == CHOOSE i \in NoDrawLinks(built) :
                          \A j \in NoDrawLinks(built) : i <= j
                 link_type == Closure(built).sys0.link_types[i]
             IN  /\ trace.raised = NoDrawFnMessage(link_type)
                 /\ link_type \in {trace.raised[k] : k \in DOMAIN trace.raised}
                 /\ Len(trace.ys) = i
                 /\ ~trace.finalized
                 /\ trace.sample = None

C11_Witness ==
    /\ pc = "gen" /\ trace # None
    /\ NoDrawLinks(built) # {}
    /\ trace.raised # None

\* ------------------------------------------------------------ claim C12
\* The closures of a batched generator that fail when they are invoked.
FailingIn(gen) ==
    {k \in DOMAIN gen.generators :
        gen.generators[k].kind = "base"
        /\ NoDrawLinks(gen.generators[k].id) # {}}

\* C12: a batched call in which the invocation of a generator fails returns
\* nothing at all and the exception reaches the caller; a call that
\* returns, returns the whole batch, one sample per slot.
\* batch_generators_eager_to_list (and the loop of offline_generator)
\* returns no list when one of its generators fails, whatever it had
\* collected from the generators before that one.
C12_AllOrNothing ==
    /\ (lastOp = "call" /\ HoldsLazy) =>
           /\ FailingIn(HeldGen) # {} => raised # None
           /\ raised # None => out = NoVal
           /\ raised = None => Len(out.cells) = Slots(HeldGen)
    /\ pool # None =>
           /\ (\E k \in DOMAIN pool.ids : NoDrawLinks(pool.ids[k]) # {}
               /\ Len(pool.ids) = Len(pool.sizes)) => pool.ret.raised # None
           /\ pool.ret.raised # None =>
                  ~pool.ret.returned /\ pool.ret.data = <<>>

C12_Witness ==
    /\ lastOp = "call" /\ HoldsLazy /\ raised # None
    /\ FailingIn(HeldGen) # {}
    /\ \E k \in DOMAIN HeldGen.generators : k \notin FailingIn(HeldGen)

\* ------------------------------------------------------------ claim C13
\* C13: a call of a stochastic batched generator splits its key in two,
\* (key, consume); the assignment is drawn from consume, one index in
\* 0..n-1 for every cell of the (pmap, vmap) grid; the B keys of the slots
\* are the split of the other half. consume is neither a slot's key nor a
\* key any generator was invoked with, and calls with different keys draw
\* their assignments from different keys.
C13_StochasticAssignment ==
    (lastOp = "call" /\ HoldsLazy /\ HeldGen.stochastic /\ raised = None) =>
        LET n == Len(HeldGen.generators)
            P == HeldGen.pmap
            V == HeldGen.vmap
            halves == Split(lastKey, 2)
            sub == Split(halves[1], HeldGen.bs_total)
        IN  /\ batch_arr = Choice(halves[2], n, P, V)
            /\ DOMAIN batch_arr = 1..P
            /\ \A p \in 1..P :
                   /\ DOMAIN batch_arr[p] = 1..V
                   /\ \A v \in 1..V : batch_arr[p][v] \in 0..(n - 1)
            /\ \A p \in 1..P, v \in 1..V :
                   /\ pmap_vmap_keys[p][v] = sub[(p - 1) * V + v]
                   /\ pmap_vmap_keys[p][v] # halves[2]
            /\ \A k \in DOMAIN invoked : invoked[k][2] # halves[2]
            /\ \A other \in CallerKeys \ {lastKey} :
                   Split(other, 2)[2] # halves[2]

C13_Witness ==
    /\ lastOp = "call" /\ HoldsLazy /\ HeldGen.stochastic /\ raised = None
    /\ Len(HeldGen.generators) = 2
    /\ HeldGen.bs_total >= 2
    /\ \E p \in DOMAIN batch_arr, v \in DOMAIN batch_arr[1] :
           batch_arr[p][v] # batch_arr[1][1]

\* ------------------------------------------------------------ claim C14
\* compose(outer, inner) applies inner first, then outer.
compose(outer, inner) == transform_mul(outer, inner)

\* C14: in zip_xs the global transform of a root is its local transform
\* composed with the identity, and the global transform of a child is
\* compose(its parent's global transform, its own local transform); for a
\* chain of two links with local transforms L0 and L1 the root's is L0 and
\* the child's compose(L0, L1).
C14_FKCompositionLaw ==
    (zipped # None /\ zipped.ret.ok) =>
        \A k \in DOMAIN zipped.link_parents :
            LET p == zipped.link_parents[k]
                local == compose(zipped.xs_transform2[k], zipped.xs_transform1[k])
            IN  zipped.ret.xs[k] =
                    IF p = -1 THEN compose(local, TransformZero)
                    ELSE compose(zipped.ret.xs[p + 1], local)

\* ------------------------------------------------------------ claim C15
\* The running key of the pool's loop after j passes.
RECURSIVE PoolKey(_, _)
PoolKey(seed, j) ==
    IF j = 0 THEN PRNGKey(seed) ELSE Split(PoolKey(seed, j - 1), 2)[1]

\* C15: the list batch_generators_eager_to_list returns holds sum(sizes)
\* unbatched samples, those of the first generator first: the samples of
\* generator j are the sizes[j] samples of its batch for the j-th key
\* consumed from the repeated split of PRNGKey(seed), so the list is a
\* function of (generators, sizes, seed).
C15_EagerPool ==
    (pool # None /\ pool.ret.returned) =>
        /\ Len(pool.ret.data) = SumSeq(pool.sizes)
        /\ \A j \in DOMAIN pool.ids : \A i \in 1..pool.sizes[j] :
               LET consume == Split(PoolKey(pool.seed, j - 1), 2)[2]
                   g == pool.ids[j]
               IN  pool.ret.data[PrefixSum(pool.sizes, j - 1) + i] =
                       Generator(g, Closure(g).sys0,
                                 Split(consume, pool.sizes[j])[i]).sample

\* ------------------------------------------------------------ claim C16
NoKeyTwice(keys) ==
    \A i \in DOMAIN keys, j \in DOMAIN keys : i # j => keys[i] # keys[j]

\* C16: in one execution of build_generator's generator, of the generator
\* of batch_generators_lazy, of batch_generators_eager_to_list and of
\* make_normalizer_from_generator, no key is used twice, a use being the
\* key's being split, drawn from, or handed to a generator, setup_fn or
\* finalize_fn.
C16_KeySingleUse ==
    /\ trace # None => NoKeyTwice(trace.uses)
    /\ lastOp = "call" => NoKeyTwice(uses)
    /\ pool # None => NoKeyTwice(pool.ret.uses)
    /\ norm # None => NoKeyTwice(norm.ret.uses)

\* ------------------------------------------------------------ claim C17
\* Parent arrays of n links: chains, siblings, forests.
ParentArrays(n) ==
    {p \in [1..n -> -1..(n - 2)] : \A k \in 1..n : p[k] < k - 1}

\* C17: in one call of generator the first link splits key_start and every
\* later link splits the key the link before it returned, whatever
\* link_parents says: not the key its parent returned (unless the parent
\* is the link before it), and not key_start when it is a root. The pairs
\* (key_t, key_value) of the links are pairwise distinct, and no draw
\* changes when only link_parents changes.
C17_SequentialKeyFold ==
    (pc = "gen" /\ trace # None) =>
        LET ys == trace.ys
            parents == trace.sys_mod.link_parents
        IN  /\ ys[1].arg = None /\ ys[1].split = trace.key_start
            /\ \A i \in 2..Len(ys) :
                   /\ ys[i].split = ys[i - 1].ret
                   /\ ys[i].split # trace.key_start
                   /\ (parents[i] # -1 /\ parents[i] + 1 # i - 1) =>
                          ys[i].split # ys[parents[i] + 1].ret
            /\ \A i \in DOMAIN ys, j \in DOMAIN ys :
                   i # j => <<ys[i].q_link.key_t, ys[i].q_link.key_value>>
                            # <<ys[j].q_link.key_t, ys[j].q_link.key_value>>
            /\ \A p \in ParentArrays(Len(parents)) :
                   ScanTreeDraw(p, Closure(built).sys0.link_types,
                                trace.key_start, built, <<>>) = ys

C17_Witness ==
    /\ pc = "gen" /\ trace # None /\ trace.ok
    /\ Len(trace.ys) = 3
    /\ trace.sys_mod.link_parents = <<-1, -1, 0>>

\* ------------------------------------------------------------ claim C18
\* C18: a request to a cache with shuffle on permutes the pool when it
\* begins at cursor 0, drawing from the random generator, and at no other
\* cursor: within an epoch the order of the pool stays as it is. With
\* shuffle off no request changes the pool or draws, and request number n
\* (from 0) returns the pool positions [(n mod N)*K, (n mod N + 1)*K).
C18_ReshuffleTiming ==
    [][(c_status = "ready" /\ reqs' = reqs + 1) =>
           /\ \A sample \in 1..c_M :
                  CountOf(c_data', sample) = CountOf(c_data, sample)
           /\ (c_shuffle /\ c_i = 0 /\ c_M > 1) => rng' # rng
           /\ ~(c_shuffle /\ c_i = 0) => (c_data' = c_data /\ rng' = rng)
           /\ (~c_shuffle /\ c_N > 0) =>
                  /\ c_data' = [k \in 1..c_M |-> k]
                  /\ c_batch' = [k \in 1..c_batchsize |->
                                    (reqs % c_N) * c_batchsize + k]]_vars

C18_Witness ==
    /\ c_status = "ready" /\ c_shuffle
    /\ c_M = 4 /\ c_batchsize = 2 /\ c_N = 2
    /\ reqs = 3 /\ c_i = 1
    /\ c_data # <<1, 2, 3, 4>>

\* ------------------------------------------------------------ claim C19
\* C19: the q of a call that returns is made of one block per link, in the
\* order of the link indices; every block has two dimensions, the block
\* of a one-dimensional draw being one column wide; the width of q is the
\* sum of the widths of the blocks, 7 + 1 + 1 = 9 for a free root with two
\* single-axis children; and all blocks are drawn for the same config, so
\* they have the same length in time.
C19_CoordinateLayout ==
    (pc = "gen" /\ trace # None /\ trace.ok) =>
        LET link_types == Closure(built).sys0.link_types
            blocks == trace.q.blocks
        IN  /\ Len(blocks) = Len(link_types)
            /\ \A i \in DOMAIN blocks :
                   /\ blocks[i] = trace.ys[i].q_link
                   /\ blocks[i].type = link_types[i]
                   /\ blocks[i].ndim = 2
                   /\ DrawNdim(link_types[i]) = 1 => blocks[i].width = 1
                   /\ blocks[i].config = blocks[1].config
            /\ trace.q.width = SumSeq([i \in DOMAIN blocks |-> blocks[i].width])
            /\ link_types = <<"free", "rx", "rx">> => trace.q.width = 9

C19_Witness ==
    /\ pc = "gen" /\ trace # None /\ trace.ok
    /\ Closure(built).sys0.link_types = <<"free", "rx", "rx">>
    /\ trace.q.width = 9

\* ------------------------------------------------------------ claim C20
\* C20: when setup_fn returns a system with other joint types, the draws
\* of the call are those of the joint types of that system, and the width
\* of q is the coordinate width of the system handed to forward
\* kinematics and finalize_fn.
C20_SameSystemForDrawAndFK ==
    (pc = "gen" /\ trace # None /\ trace.ok) =>
        /\ \A i \in DOMAIN trace.q.blocks :
               trace.q.blocks[i].type = trace.sys_mod.link_types[i]
        /\ trace.q.width = TotalWidth(trace.sys_mod.link_types)

\* C21: delete_to_world_pos_rot rejects an xs whose link count differs from
\* the system's before it produces any transform; otherwise its output has
\* the shape (time, link) of its input, and at every time step the
\* transform of every link whose parent is -1 is the identity and the
\* transform of every other link is the one given.
C21_DeleteToWorld ==
    (call # None /\ call.fn = "delete_to_world_pos_rot" /\ call.xs.ndim = 3) =>
        LET parents == call.sys.link_parents
            given == call.xs.steps
            r == call.ret
        IN  IF Len(given[1]) # Len(parents)
            THEN ~r.ok /\ r.xs = None
            ELSE /\ r.ok
                 /\ r.xs.ndim = 3
                 /\ Len(r.xs.steps) = Len(given)
                 /\ \A t \in DOMAIN given :
                        /\ Len(r.xs.steps[t]) = Len(given[t])
                        /\ \A k \in DOMAIN parents :
                               r.xs.steps[t][k] =
                                   IF parents[k] = -1 THEN TransformZero
                                   ELSE given[t][k]

\* Two roots and a child, over two time steps, are run through.
C21_Witness ==
    /\ call # None
    /\ call.fn = "delete_to_world_pos_rot"
    /\ call.ret.ok
    /\ call.sys = Forest
    /\ Len(call.ret.xs.steps) = 2
    /\ call.ret.xs.steps[2][2] = TransformZero
    /\ call.ret.xs.steps[2][3] = << <<"x", 1, 2>> >>

\* The position of a motion in the trial's sequence, from 1; 0 when the
\* trial does not have it.
PlaceOf(motion) ==
    IF \E k \in DOMAIN Timings : Timings[k].motion = motion
    THEN CHOOSE k \in DOMAIN Timings : Timings[k].motion = motion
    ELSE 0

\* C22: load_data accepts a motion window only if motion_start is a timing
\* of the trial and not its last, and motion_stop (when not given: the
\* motion that directly follows motion_start) is a timing strictly later
\* in the sequence; a motion_stop given without a motion_start is
\* rejected; the crop starts at max(timings[motion_start] - left_padd, 0).
C22_WindowValidation ==
    (call # None /\ call.fn = "load_data") =>
        LET start == PlaceOf(call.motion_start)
            stop == IF call.motion_stop = Unset /\ start > 0 THEN start + 1
                    ELSE PlaceOf(call.motion_stop)
            r == call.ret
        IN  /\ (r.ok /\ call.motion_start # Unset) =>
                   /\ start > 0
                   /\ start < Len(Timings)
                   /\ stop > start
                   /\ stop <= Len(Timings)
                   /\ r.cropped
                   /\ r.t1 = (IF Timings[start].at - call.left_padd > 0
                              THEN Timings[start].at - call.left_padd ELSE 0)
            /\ (call.motion_start = Unset /\ call.motion_stop # Unset) => ~r.ok

\* A window from the second motion with the stop left out is accepted and
\* the padding reaches before the start of the trial.
C22_Witness ==
    /\ call # None
    /\ call.fn = "load_data"
    /\ call.motion_start = "fast"
    /\ call.motion_stop = Unset
    /\ call.left_padd = 6
    /\ call.ret.ok
    /\ call.ret.t1 = 0
    /\ call.ret.t2 = 9 + call.right_padd

\* The batches a cache serves in its first n requests when nothing else
\* in the process touches Python's random generator.
RECURSIVE AloneFrom(_, _, _)
AloneFrom(cache, r, n) ==
    IF n = 0 THEN cache.served
    ELSE AloneFrom(AfterServed(cache, Served(cache, r)),
                   Served(cache, r).rng, n - 1)

Alone(cache, n) ==
    AloneFrom(Constructed(cache.ctor, cache.M, cache.batchsize,
                          cache.shuffle, cache.seed),
              RngSeed(cache.seed), n)

\* C23: the batches an offline cache built with shuffle serves depend on
\* its pool, batch size, seed and the number of requests made to it only:
\* not on the construction of, or the requests to, another cache of the
\* process, nor on the keys of the requests.
C23_CacheDeterminism ==
    \A c \in CacheIds :
        (caches[c].built /\ caches[c].shuffle) =>
            caches[c].served = Alone(caches[c], Len(caches[c].served))

\* C24: both cache constructors reject a pool of fewer samples than the
\* batch size, so a cache that was constructed never raises when a batch
\* is requested and never serves a batch of fewer than batchsize samples.
C24_UndersizedPool ==
    c_status = "ready" =>
        /\ c_M >= c_batchsize
        /\ ~c_raised
        /\ c_batch # <<>> => Len(c_batch) = c_batchsize

\* C25: pipeline.make_generator returns a batched generator whose output
\* has exactly bs samples, every (system, config) pair contributing the
\* same number of slots, for every bs >= 1 and every number of pairs.
C25_MakeGenerator ==
    (call # None /\ call.fn = "make_generator") =>
        /\ call.status = "ok"
        /\ call.output.raised = None
        /\ call.output.samples = call.bs
        /\ \A i, j \in 0..(call.n_sys * call.n_configs - 1) :
               CountOf(call.output.batch_arr, i)
                   = CountOf(call.output.batch_arr, j)

\* A filter whose chain of wrappers ends in a filter.
RECURSIVE Complete(_)
Complete(f) ==
    /\ f # None
    /\ f.wrapper => Complete(f._filter)

\* C26: load(path) after f.save(path), called on the class of f, returns a
\* filter with the wrapper chain and inner filter of f: never None, and no
\* wrapper around None; and save leaves f itself complete.
C26_SaveLoadRoundTrip ==
    /\ filter # None => Complete(filter)
    /\ (loaded # None /\ loaded.own) =>
           /\ ~loaded.out.raised
           /\ Complete(loaded.out.ret)
           /\ loaded.out.ret = filter

\* C27: match_xs disables logging only for the time of the call: when it
\* has returned, and when it has failed, the process-wide level up to which
\* logging is disabled is the one it was before the call, whatever that was
\* (nothing disabled included).
C27_LoggingRestored ==
    matched # None => disable = matched.before

\* C28: for every system (parents before children) and every time series
\* xs of eps-to-link transforms with one transform per link, unzip_xs gives
\* for every link and time step a pure translation transform1 and a pure
\* rotation transform2, the position and the rotation of the link's
\* parent-to-link transform (of its own transform for a root), and zip_xs
\* of the two gives xs back at every link and time step.
C28_ZipUnzipRoundTrip ==
    (call # None /\ call.fn = "unzip_xs"
        /\ Len(call.xs.steps[1]) = Len(call.sys.link_parents)) =>
        /\ call.ret.ok
        /\ \A t \in DOMAIN call.xs.steps :
               /\ call.zipped[t].ok
               /\ \A k \in DOMAIN call.sys.link_parents :
                      LET p == call.sys.link_parents[k]
                          own == Value(call.xs.steps[t][k])
                          rel == IF p = -1 THEN own
                                 ELSE ValueMul(own,
                                          ValueInv(Value(call.xs.steps[t][p + 1])))
                          transform1 == Value(call.ret.transform1.steps[t][k])
                          transform2 == Value(call.ret.transform2.steps[t][k])
                      IN  /\ transform1 = [pos |-> rel.pos, rot |-> 0]
                          /\ transform2 = [pos |-> <<0, 0>>, rot |-> rel.rot]
                          /\ Value(call.zipped[t].xs[k]) = own

\* A chain of three links that turn and move apart, over two time steps,
\* is unzipped into parts that are not the links' own transforms, and
\* zipped again.
C28_Witness ==
    /\ call # None
    /\ call.fn = "unzip_xs"
    /\ call.ret.ok
    /\ call.sys.link_parents = <<-1, 0, 1>>
    /\ Len(call.xs.steps) = 2
    /\ Value(call.xs.steps[2][2]).rot # 0
    /\ Value(call.ret.transform1.steps[2][3]).pos
           # Value(call.xs.steps[2][3]).pos
    /\ Value(call.ret.transform2.steps[2][3]).rot
           # Value(call.xs.steps[2][3]).rot
    /\ Value(call.zipped[2].xs[3]) = Value(call.xs.steps[2][3])

====
